---- MODULE Spec2Model ----
(***************************************************************************)
(* The credit ledger of photo-portrait-bot (app/database/crud.py): the     *)
(* users, packages, orders, processed_images and referral_rewards tables   *)
(* of a PostgreSQL database (READ COMMITTED), and the handlers that        *)
(* reserve, roll back and finalize credits, settle orders and credit       *)
(* referral rewards.  Every handler runs in its own session (transaction); *)
(* one action is one awaited statement (or a run of statements that no     *)
(* other transaction can observe apart).                                   *)
(***************************************************************************)
EXTENDS Integers, Sequences, FiniteSets, TLC

VARIABLES
    free_images_left,   \* users.free_images_left, by users.id
    referred_by_id,     \* users.referred_by_id, by users.id (NULL when unset)
    total_referrals,    \* users.total_referrals, by users.id
    referral_code,      \* users.referral_code, by users.id ("" when unset)
    total_images_processed, \* users.total_images_processed, by users.id
    new_users,          \* users rows added by get_or_create_user, in order
    packages,           \* packages table: sequence of rows, packages.id = index
    orders,             \* orders table: sequence of rows, orders.id = index
    processed_images,   \* processed_images rows counted by (user_id, is_free)
    referral_rewards,   \* referral_rewards table: sequence of rows
    lock,               \* users row locks: users.id -> holding session or NULL
    order_lock,         \* orders row locks: orders.id -> holding session or NULL
    clock,              \* datetime.utcnow(), as a counter of the stamps taken
    pc,                 \* each session's position in its handler
    local,              \* each session's arguments and loaded ORM attributes
    result,             \* what each session's last call returned (cleared when
                        \* the session starts its next call)
    reservation,        \* the reservation a request handler holds after Reserve
                        \* (and, as history, the balance its Reserve found)
    ncalls,             \* requests started so far
    ledger,             \* history: per account, what the committed calls did
    touched             \* history: another session changed the account since Reserve

dbvars == <<free_images_left, referred_by_id, total_referrals, referral_code,
            total_images_processed, new_users, packages, orders,
            processed_images, referral_rewards>>
vars == <<free_images_left, referred_by_id, total_referrals, referral_code,
          total_images_processed, new_users, packages, orders,
          processed_images, referral_rewards, lock, order_lock, clock, pc,
          local, result, reservation, ncalls, ledger, touched>>

----------------------------------------------------------------------------
(* Bounds of the model. *)

MaxCalls == 3        \* requests made in one run
MaxInitFree == 1     \* free images an account holds at the start
MaxSyncs == 2        \* synchronizations of the catalog in one run

(* Program constants. *)

REFERRAL_REWARD_START == 5
REFERRAL_REWARD_PURCHASE_PERCENT == 10

NULL == 0
Users == {1, 2}      \* users.id of the accounts
Procs == {1, 2}      \* the concurrent sessions

\* users.telegram_id of the account with users.id = u; one id has no account.
TelegramIdOf(u) == 100 + u
UnknownTelegramId == TelegramIdOf(Cardinality(Users) + 1)
TelegramIds == {TelegramIdOf(u) : u \in Users} \cup {UnknownTelegramId}

\* faulty variant: an id without an account falls back to some account
UserByTelegramIdOrAny(tid) ==
    IF \E u \in Users : TelegramIdOf(u) = tid
    THEN CHOOSE u \in Users : TelegramIdOf(u) = tid
    ELSE CHOOSE u \in Users : TRUE

\* select(User).where(User.telegram_id == tid) ... scalar_one_or_none()
UserByTelegramId(tid) ==
    IF \E u \in Users : TelegramIdOf(u) = tid
    THEN CHOOSE u \in Users : TelegramIdOf(u) = tid
    ELSE NULL

Max(a, b) == IF a >= b THEN a ELSE b

----------------------------------------------------------------------------
(* Queries. *)

RECURSIVE SumImages(_, _, _)
SumImages(ords, pkgs, u) ==
    IF ords = <<>> THEN 0
    ELSE LET o == Head(ords)
         IN  (IF o.user_id = u /\ o.status = "paid" /\ o.package_id \in DOMAIN pkgs
              THEN pkgs[o.package_id].images_count ELSE 0)
             + SumImages(Tail(ords), pkgs, u)

\* select(func.sum(Package.images_count)).join(Order ...).where(user, "paid") or 0
PaidTotal(u) == SumImages(orders, packages, u)

\* select(func.count(ProcessedImage.id)).where(user, is_free == False) or 0
UsedPaid(u) == processed_images[u][FALSE]

\* faulty variant: the paid images used are not subtracted
PaidLeftIgnoresUsed(paid_total, used_paid) == paid_total

\* faulty variant: one paid image too few
PaidLeftOffByOne(paid_total, used_paid) == paid_total - used_paid - 1

\* check_and_reserve_balance: paid_left = paid_total - used_paid
PaidLeft(paid_total, used_paid) == paid_total - used_paid

\* faulty variant: the difference is not floored at zero
BalancePaidLeftNoFloor(paid_total, used_paid) == paid_total - used_paid

\* get_user_balance: paid_left = max(0, paid_total - used_paid)
BalancePaidLeft(paid_total, used_paid) == Max(0, paid_total - used_paid)

\* get_user_balance: the dict it returns
BalanceOf(free, paid_total, used_paid) ==
    LET paid_left == BalancePaidLeft(paid_total, used_paid)
    IN  [free |-> free, paid |-> paid_left, total |-> free + paid_left]

ZeroBalance == [free |-> 0, paid |-> 0, total |-> 0]

\* get_user_balance evaluated on one committed state
GetBalance(u) == BalanceOf(free_images_left[u], PaidTotal(u), UsedPaid(u))

\* get_order_by_invoice_id: the order with this invoice_id, or NULL
OrderByInvoiceId(inv) ==
    IF \E i \in DOMAIN orders : orders[i].invoice_id = inv
    THEN CHOOSE i \in DOMAIN orders : orders[i].invoice_id = inv
    ELSE NULL

----------------------------------------------------------------------------
(* Sessions. *)

NoLocal == [tid |-> NULL, user |-> NULL, free |-> 0, paid_total |-> 0,
            is_free |-> FALSE, invoice |-> "none", order |-> NULL,
            package_id |-> NULL, paid_at |-> NULL,
            referred |-> NULL, reward |-> 0, rtype |-> "none",
            referrer |-> NULL, code |-> "", processed |-> 0]

\* a call as its caller sees it: the handler, its argument (the account found
\* for telegram_id, or the invoice_id) and the value returned, or the
\* exception raised
NoResult == [op |-> "none", user |-> NULL, invoice |-> "none", ok |-> FALSE,
             is_free |-> FALSE, balance |-> ZeroBalance, order |-> NULL,
             referrer |-> NULL, code |-> "", error |-> "none"]

\* the call raised an exception
Raised(r) == r.error # "none"

\* the exception of a call whose statement failed, if one did
ErrorIf(raised) == IF raised THEN "StorageError" ELSE "none"

NoReservation == [user |-> NULL, is_free |-> FALSE, pre |-> ZeroBalance]

\* faulty variant: the statements take no row lock (with_for_update() left out)
NoRowLock(l, p) == TRUE

\* SELECT ... FOR UPDATE and UPDATE wait while another session holds the row
LockAvailable(l, p) == l \in {NULL, p}

\* faulty variant: the commit leaves the row locked
NotReleased(lk, p) == lk

\* session.commit(): the session's row locks are released
Released(lk, p) == [x \in DOMAIN lk |-> IF lk[x] = p THEN NULL ELSE lk[x]]

\* a request handler starts a new request
CanStart(p) ==
    /\ pc[p] = "idle"
    /\ reservation[p].user = NULL
    /\ ncalls < MaxCalls

Return(p, r) ==
    /\ pc' = [pc EXCEPT ![p] = "idle"]
    /\ local' = [local EXCEPT ![p] = NoLocal]
    /\ result' = [result EXCEPT ![p] = r]

\* the sessions, other than p, that are in a Reserve on an account of S or
\* hold a reservation on one see a change
Touch(p, S) ==
    touched' = [q \in Procs |->
                  IF /\ q # p
                     /\ \/ reservation[q].user \in S
                        \/ /\ pc[q] \in {"rsv_free", "rsv_used"}
                           /\ local[q].user \in S
                  THEN TRUE ELSE touched[q]]

----------------------------------------------------------------------------
(* check_and_reserve_balance *)

\* faulty variant: the last free image is never used
HasFreeOffByOne(free) == free > 1

\* line 185: if user.free_images_left > 0
HasFree(free) == free > 0

\* line 186: user.free_images_left -= 1
FreeAfterReserve(free) == free - 1

\* lines 176-182: SELECT ... FOR UPDATE, unknown account
RsvLock(p, tid) ==
    /\ CanStart(p)
    /\ ncalls' = ncalls + 1
    /\ LET u == UserByTelegramId(tid) IN
       IF u = NULL
       THEN /\ Return(p, [NoResult EXCEPT !.op = "reserve"])
            /\ UNCHANGED <<lock, touched>>
       ELSE /\ LockAvailable(lock[u], p)
            /\ lock' = [lock EXCEPT ![u] = p]
            /\ pc' = [pc EXCEPT ![p] = "rsv_free"]
            /\ local' = [local EXCEPT ![p] =
                           [NoLocal EXCEPT !.tid = tid, !.user = u,
                                           !.free = free_images_left[u]]]
            /\ touched' = [touched EXCEPT ![p] = FALSE]
            /\ result' = [result EXCEPT ![p] = NoResult]
    /\ reservation' = [reservation EXCEPT ![p] =
                         IF UserByTelegramId(tid) = NULL THEN NoReservation
                         ELSE [NoReservation EXCEPT
                                 !.pre = GetBalance(UserByTelegramId(tid))]]
    /\ UNCHANGED <<dbvars, order_lock, clock, ledger>>

\* lines 184-197: use a free image and commit, or sum the paid orders
RsvFree(p) ==
    /\ pc[p] = "rsv_free"
    /\ LET u == local[p].user IN
       IF HasFree(local[p].free)
       THEN /\ free_images_left' =
                  [free_images_left EXCEPT ![u] = FreeAfterReserve(local[p].free)]
            /\ lock' = Released(lock, p)
            /\ Return(p, [NoResult EXCEPT !.op = "reserve", !.user = u,
                                          !.ok = TRUE, !.is_free = TRUE])
            /\ reservation' = [reservation EXCEPT ![p].user = u,
                                                  ![p].is_free = TRUE]
            /\ ledger' = [ledger EXCEPT ![u].granted = @ + 1]
            /\ Touch(p, {u})
       ELSE /\ pc' = [pc EXCEPT ![p] = "rsv_used"]
            /\ local' = [local EXCEPT ![p].paid_total = PaidTotal(u)]
            /\ UNCHANGED <<free_images_left, lock, result, reservation,
                           ledger, touched>>
    /\ UNCHANGED <<referred_by_id, total_referrals, referral_code,
                   packages, orders, processed_images, referral_rewards,
                   order_lock, clock, ncalls, total_images_processed,
                   new_users>>

\* lines 199-216: count the paid images used, decide, commit (release the lock)
RsvUsed(p) ==
    /\ pc[p] = "rsv_used"
    /\ LET u == local[p].user
           paid_left == PaidLeft(local[p].paid_total, UsedPaid(u))
       IN  /\ lock' = Released(lock, p)
           /\ Return(p, [NoResult EXCEPT !.op = "reserve", !.user = u,
                                         !.ok = (paid_left > 0)])
           /\ reservation' = [reservation EXCEPT ![p] =
                                IF paid_left > 0
                                THEN [@ EXCEPT !.user = u, !.is_free = FALSE]
                                ELSE NoReservation]
    /\ UNCHANGED <<dbvars, order_lock, clock, ncalls, ledger, touched>>

----------------------------------------------------------------------------
(* rollback_balance, called by the request handler when processing failed *)

\* faulty variant: the free image is not given back
FreeAfterRollbackUnchanged(free) == free

\* line 240: user.free_images_left += 1
FreeAfterRollback(free) == free + 1

\* faulty variant: a paid reservation is rolled back like a free one
NothingToRollbackNever(is_free) == FALSE

\* line 228: if not is_free
NothingToRollback(is_free) == ~is_free

\* lines 228-237: nothing for a paid reservation; else SELECT ... FOR UPDATE
RbLock(p) ==
    /\ pc[p] = "idle"
    /\ reservation[p].user # NULL
    /\ LET u == reservation[p].user IN
       IF NothingToRollback(reservation[p].is_free)
       THEN /\ Return(p, [NoResult EXCEPT !.op = "rollback", !.user = u])
            /\ reservation' = [reservation EXCEPT ![p] = NoReservation]
            /\ UNCHANGED lock
       ELSE /\ LockAvailable(lock[u], p)
            /\ lock' = [lock EXCEPT ![u] = p]
            /\ pc' = [pc EXCEPT ![p] = "rb_write"]
            /\ local' = [local EXCEPT ![p] =
                           [NoLocal EXCEPT !.tid = TelegramIdOf(u), !.user = u,
                                           !.is_free = TRUE,
                                           !.free = free_images_left[u]]]
            /\ result' = [result EXCEPT ![p] = NoResult]
            /\ UNCHANGED reservation
    /\ UNCHANGED <<dbvars, order_lock, clock, ncalls, ledger, touched>>

\* lines 239-241: give the free image back and commit
RbWrite(p) ==
    /\ pc[p] = "rb_write"
    /\ LET u == local[p].user IN
       /\ free_images_left' =
             [free_images_left EXCEPT ![u] = FreeAfterRollback(local[p].free)]
       /\ ledger' = [ledger EXCEPT ![u].rolled_back = @ + 1]
       /\ Touch(p, {u})
    /\ lock' = Released(lock, p)
    /\ Return(p, [NoResult EXCEPT !.op = "rollback", !.user = local[p].user,
                                  !.is_free = TRUE])
    /\ reservation' = [reservation EXCEPT ![p] = NoReservation]
    /\ UNCHANGED <<referred_by_id, total_referrals, referral_code,
                   packages, orders, processed_images, referral_rewards,
                   order_lock, clock, ncalls, total_images_processed,
                   new_users>>

\* lines 228-239: rollback_balance(telegram_id, is_free) called for any
\* telegram_id by a caller that holds no reservation; an unknown account is
\* left alone
RbCall(p, tid, is_free) ==
    /\ CanStart(p)
    /\ ncalls' = ncalls + 1
    /\ LET u == UserByTelegramId(tid) IN
       IF NothingToRollback(is_free) \/ u = NULL
       THEN /\ Return(p, [NoResult EXCEPT !.op = "rollback", !.user = u])
            /\ UNCHANGED lock
       ELSE /\ LockAvailable(lock[u], p)
            /\ lock' = [lock EXCEPT ![u] = p]
            /\ pc' = [pc EXCEPT ![p] = "rb_write"]
            /\ local' = [local EXCEPT ![p] =
                           [NoLocal EXCEPT !.tid = tid, !.user = u,
                                           !.is_free = TRUE,
                                           !.free = free_images_left[u]]]
            /\ result' = [result EXCEPT ![p] = NoResult]
    /\ UNCHANGED <<dbvars, order_lock, clock, reservation, ledger, touched>>

----------------------------------------------------------------------------
(* save_processed_image, called by the request handler when processing      *)
(* succeeded, with is_free as Reserve returned it (the account exists: it   *)
(* was found by the Reserve before)                                         *)

SaveProcessedImage(p) ==
    /\ pc[p] = "idle"
    /\ reservation[p].user # NULL
    /\ LET u == reservation[p].user
           f == reservation[p].is_free
       IN  /\ processed_images' = [processed_images EXCEPT ![u][f] = @ + 1]
           /\ Return(p, [NoResult EXCEPT !.op = "save", !.user = u, !.ok = TRUE,
                                         !.is_free = f])
           /\ Touch(p, {u})
    /\ reservation' = [reservation EXCEPT ![p] = NoReservation]
    /\ UNCHANGED <<free_images_left, referred_by_id, total_referrals,
                   referral_code, packages, orders, referral_rewards, lock,
                   order_lock, clock, ncalls, ledger,
                   total_images_processed, new_users>>

----------------------------------------------------------------------------
(* get_user_balance *)

\* lines 106-112: load the user; zeros when there is none
GbUser(p, tid) ==
    /\ CanStart(p)
    /\ ncalls' = ncalls + 1
    /\ LET u == UserByTelegramId(tid) IN
       IF u = NULL
       THEN Return(p, [NoResult EXCEPT !.op = "balance"])
       ELSE /\ pc' = [pc EXCEPT ![p] = "gb_paid"]
            /\ local' = [local EXCEPT ![p] =
                           [NoLocal EXCEPT !.tid = tid, !.user = u,
                                           !.free = free_images_left[u]]]
            /\ result' = [result EXCEPT ![p] = NoResult]
    /\ UNCHANGED <<dbvars, lock, order_lock, clock, reservation, ledger, touched>>

\* lines 114-120: sum the images of the paid orders
GbPaid(p) ==
    /\ pc[p] = "gb_paid"
    /\ pc' = [pc EXCEPT ![p] = "gb_used"]
    /\ local' = [local EXCEPT ![p].paid_total = PaidTotal(local[p].user)]
    /\ UNCHANGED <<dbvars, lock, order_lock, clock, result, reservation,
                   ncalls, ledger, touched>>

\* lines 122-135: count the paid images used, build the balance
GbUsed(p) ==
    /\ pc[p] = "gb_used"
    /\ Return(p, [NoResult EXCEPT
                    !.op = "balance", !.user = local[p].user, !.ok = TRUE,
                    !.balance = BalanceOf(local[p].free, local[p].paid_total,
                                          UsedPaid(local[p].user))])
    /\ UNCHANGED <<dbvars, lock, order_lock, clock, reservation, ncalls,
                   ledger, touched>>

----------------------------------------------------------------------------
(* add_referral_reward *)

\* faulty variant: the UPDATE of the account is missing
FreeAfterRewardUnchanged(free, images_rewarded) == free

\* line 994: free_images_left = User.free_images_left + images_rewarded
FreeAfterReward(free, images_rewarded) == free + images_rewarded

\* lines 990-995: UPDATE users SET free_images_left = free_images_left + n.
\* The statement waits for the row lock, reads the committed row under it and
\* keeps the lock until the session commits.
RewardUpdate(p, loc) ==
    /\ LockAvailable(lock[loc.user], p)
    /\ lock' = [lock EXCEPT ![loc.user] = p]
    /\ pc' = [pc EXCEPT ![p] = "arr_commit"]
    /\ local' = [local EXCEPT ![p] =
                   [loc EXCEPT !.free = free_images_left[loc.user]]]

\* the signup handler credits the referrer of a referred user
ArrUpdate(p, r) ==
    /\ CanStart(p)
    /\ referred_by_id[r] # NULL
    /\ ncalls' = ncalls + 1
    /\ RewardUpdate(p, [NoLocal EXCEPT !.user = referred_by_id[r],
                                       !.referred = r,
                                       !.rtype = "referral_start",
                                       !.reward = REFERRAL_REWARD_START])
    /\ result' = [result EXCEPT ![p] = NoResult]
    /\ UNCHANGED <<dbvars, order_lock, clock, reservation, ledger, touched>>

\* the order row as mark_order_paid's pending UPDATE leaves it
OrdersFlushed(loc) ==
    IF loc.order = NULL THEN orders
    ELSE [orders EXCEPT ![loc.order].status = "paid",
                        ![loc.order].paid_at = loc.paid_at]

\* lines 997-1009: INSERT the reward row and commit the session: the
\* increment, the row and whatever else the session has flushed become
\* visible together, and the session's locks are released.  raised: a
\* statement after that commit (the refresh of line 1007 or, in
\* mark_order_paid, lines 426-427) fails and the exception leaves the handler.
ArrCommitted(p, raised) ==
    /\ pc[p] = "arr_commit"
    /\ LET loc == local[p] IN
       /\ free_images_left' =
             [free_images_left EXCEPT
                ![loc.user] = FreeAfterReward(loc.free, loc.reward)]
       /\ referral_rewards' =
             Append(referral_rewards,
                    [user_id |-> loc.user, referred_user_id |-> loc.referred,
                     order_id |-> loc.order, reward_type |-> loc.rtype,
                     images_rewarded |-> loc.reward])
       /\ orders' = OrdersFlushed(loc)
       /\ ledger' = [ledger EXCEPT ![loc.user].rewarded = @ + loc.reward]
       /\ Touch(p, {loc.user} \cup
                   (IF loc.order = NULL THEN {}
                    ELSE {orders[loc.order].user_id}))
       /\ Return(p, [NoResult EXCEPT
                       !.op = IF loc.order = NULL THEN "reward" ELSE "settle",
                       !.user = loc.user, !.invoice = loc.invoice,
                       !.ok = ~raised, !.error = ErrorIf(raised),
                       !.order = IF raised THEN NULL ELSE loc.order])
    /\ lock' = Released(lock, p)
    /\ order_lock' = Released(order_lock, p)
    /\ UNCHANGED <<referred_by_id, total_referrals, referral_code,
                   packages, processed_images, clock, reservation, ncalls,
                   total_images_processed, new_users>>

ArrCommit(p) == ArrCommitted(p, FALSE)

ArrRefreshRaise(p) == ArrCommitted(p, TRUE)

----------------------------------------------------------------------------
(* mark_order_paid *)

\* faulty variant: the status check is missing
AlreadyPaidUnchecked(status) == FALSE

\* line 398: the check that prevents duplicate processing
AlreadyPaid(status) == status = "paid"

\* faulty variant: the percentage is not divided by 100
ReferralRewardUnscaled(images_purchased) ==
    images_purchased * REFERRAL_REWARD_PURCHASE_PERCENT

\* line 413: int(images_purchased * REFERRAL_REWARD_PURCHASE_PERCENT / 100)
ReferralRewardFor(images_purchased) ==
    (images_purchased * REFERRAL_REWARD_PURCHASE_PERCENT) \div 100

\* faulty variant: the reward is never credited
RewardDueNever(referrer, reward) == FALSE

\* faulty variant: a reward of 0 images is credited too
RewardDueAlways(referrer, reward) == referrer # NULL

\* lines 408 and 415: if order.user.referred_by_id ... if referral_reward > 0
RewardDue(referrer, reward) == referrer # NULL /\ reward > 0

\* faulty variant: the reward goes on to the referrer of the referrer
BeneficiarySecondLevel(referrers, buyer) ==
    IF referrers[referrers[buyer]] # NULL THEN referrers[referrers[buyer]]
    ELSE referrers[buyer]

\* lines 417-419: add_referral_reward(user_id=order.user.referred_by_id, ...)
Beneficiary(referrers, buyer) == referrers[buyer]

\* lines 392-402: load the order; None when unknown or already paid; else set
\* status and paid_at on the loaded object
MopGet(p, inv) ==
    /\ CanStart(p)
    /\ ncalls' = ncalls + 1
    /\ LET o == OrderByInvoiceId(inv) IN
       IF o = NULL \/ AlreadyPaid(orders[o].status)
       THEN /\ Return(p, [NoResult EXCEPT !.op = "settle", !.invoice = inv])
            /\ UNCHANGED clock
       ELSE /\ pc' = [pc EXCEPT ![p] = "mop_flush"]
            /\ local' = [local EXCEPT ![p] =
                           [NoLocal EXCEPT !.order = o, !.paid_at = clock,
                                           !.invoice = inv]]
            /\ clock' = clock + 1
            /\ result' = [result EXCEPT ![p] = NoResult]
    /\ UNCHANGED <<dbvars, lock, order_lock, reservation, ledger, touched>>

\* lines 405-415: refresh flushes UPDATE orders (which waits for the order's
\* row lock) and loads the buyer and the package; the reward is computed
MopFlush(p) ==
    /\ pc[p] = "mop_flush"
    /\ LET o == local[p].order
           buyer == orders[o].user_id
           reward == ReferralRewardFor(packages[orders[o].package_id].images_count)
       IN  /\ LockAvailable(order_lock[o], p)
           /\ order_lock' = [order_lock EXCEPT ![o] = p]
           /\ IF RewardDue(referred_by_id[buyer], reward)
              THEN /\ pc' = [pc EXCEPT ![p] = "arr_update"]
                   /\ local' = [local EXCEPT
                                  ![p].user = Beneficiary(referred_by_id, buyer),
                                  ![p].referred = buyer,
                                  ![p].rtype = "referral_purchase",
                                  ![p].reward = reward]
              ELSE /\ pc' = [pc EXCEPT ![p] = "mop_commit"]
                   /\ local' = [local EXCEPT ![p].referred = buyer]
    /\ UNCHANGED <<dbvars, lock, clock, result, reservation, ncalls, ledger,
                   touched>>

\* lines 417-424: the call of add_referral_reward
MopReward(p) ==
    /\ pc[p] = "arr_update"
    /\ RewardUpdate(p, local[p])
    /\ UNCHANGED <<dbvars, order_lock, clock, result, reservation, ncalls,
                   ledger, touched>>

\* lines 426-429: commit when no reward is due.  raised: the refresh of line
\* 427 fails after the commit.
MopCommitted(p, raised) ==
    /\ pc[p] = "mop_commit"
    /\ orders' = OrdersFlushed(local[p])
    /\ order_lock' = Released(order_lock, p)
    /\ Touch(p, {local[p].referred})
    /\ Return(p, [NoResult EXCEPT !.op = "settle",
                                  !.invoice = local[p].invoice,
                                  !.ok = ~raised, !.error = ErrorIf(raised),
                                  !.order = IF raised THEN NULL
                                            ELSE local[p].order])
    /\ UNCHANGED <<free_images_left, referred_by_id, total_referrals,
                   referral_code, packages, processed_images,
                   referral_rewards, lock, clock, reservation, ncalls,
                   ledger, total_images_processed, new_users>>

MopCommit(p) == MopCommitted(p, FALSE)

MopRefreshRaise(p) == MopCommitted(p, TRUE)

----------------------------------------------------------------------------
(* create_order *)

\* faulty variant: the package reference is not checked
PackageUnchecked(pkgs, package_id) == TRUE

\* models.py line 75: package_id is a ForeignKey("packages.id")
PackageExists(pkgs, package_id) == package_id \in DOMAIN pkgs

\* faulty variant: invoice_id is not unique
InvoiceIdUnchecked(ords, inv) == TRUE

\* models.py line 76: invoice_id is unique
InvoiceIdFree(ords, inv) == \A i \in DOMAIN ords : ords[i].invoice_id # inv

\* lines 355-361: load the user; ValueError when there is none
CoUser(p, tid, package_id, inv) ==
    /\ CanStart(p)
    /\ ncalls' = ncalls + 1
    /\ LET u == UserByTelegramId(tid) IN
       IF u = NULL
       THEN Return(p, [NoResult EXCEPT !.op = "create", !.invoice = inv,
                                       !.error = "ValueError"])
       ELSE /\ pc' = [pc EXCEPT ![p] = "co_insert"]
            /\ local' = [local EXCEPT ![p] =
                           [NoLocal EXCEPT !.tid = tid, !.user = u,
                                           !.package_id = package_id,
                                           !.invoice = inv]]
            /\ result' = [result EXCEPT ![p] = NoResult]
    /\ UNCHANGED <<dbvars, lock, order_lock, clock, reservation, ledger, touched>>

\* the constraints of the orders table admit the row
OrderInsertable(loc) ==
    /\ PackageExists(packages, loc.package_id)
    /\ InvoiceIdFree(orders, loc.invoice)

\* lines 363-374: INSERT the pending order and commit.  raised: the refresh
\* of line 372 fails after the commit.
CoCommitted(p, raised) ==
    /\ pc[p] = "co_insert"
    /\ OrderInsertable(local[p])
    /\ orders' = Append(orders, [user_id |-> local[p].user,
                                 package_id |-> local[p].package_id,
                                 invoice_id |-> local[p].invoice,
                                 status |-> "pending", paid_at |-> NULL])
    /\ order_lock' = Append(order_lock, NULL)
    /\ Return(p, [NoResult EXCEPT !.op = "create", !.user = local[p].user,
                                  !.invoice = local[p].invoice,
                                  !.ok = ~raised, !.error = ErrorIf(raised),
                                  !.order = IF raised THEN NULL
                                            ELSE Len(orders) + 1])
    /\ UNCHANGED <<free_images_left, referred_by_id, total_referrals,
                   referral_code, packages, processed_images,
                   referral_rewards, lock, clock, reservation, ncalls,
                   ledger, touched, total_images_processed, new_users>>

\* line 371: the INSERT violates a constraint: IntegrityError, nothing is
\* committed
CoRejected(p) ==
    /\ pc[p] = "co_insert"
    /\ ~OrderInsertable(local[p])
    /\ Return(p, [NoResult EXCEPT !.op = "create", !.user = local[p].user,
                                  !.invoice = local[p].invoice,
                                  !.error = "IntegrityError"])
    /\ UNCHANGED <<dbvars, lock, order_lock, clock, reservation, ncalls,
                   ledger, touched>>

CoInsert(p) == CoCommitted(p, FALSE) \/ CoRejected(p)

CoRefreshRaise(p) == CoCommitted(p, TRUE)

----------------------------------------------------------------------------
(* A statement of a handler fails (a storage error).  No handler catches    *)
(* exceptions: the exception leaves the handler and the session's open      *)
(* transaction is rolled back, so nothing it wrote since its last commit is *)
(* kept and its row locks are released.                                     *)

RaisedIn(p) ==
    IF pc[p] = "co_insert" THEN "create"
    ELSE IF local[p].order # NULL THEN "settle" ELSE "reward"

Raise(p) ==
    /\ pc[p] \in {"co_insert", "mop_flush", "arr_update", "arr_commit",
                  "mop_commit"}
    /\ lock' = Released(lock, p)
    /\ order_lock' = Released(order_lock, p)
    /\ Return(p, [NoResult EXCEPT !.op = RaisedIn(p), !.user = local[p].user,
                                  !.invoice = local[p].invoice,
                                  !.error = "StorageError"])
    /\ UNCHANGED <<dbvars, clock, reservation, ncalls, ledger, touched>>

----------------------------------------------------------------------------
(* decrease_balance (the handler check_and_reserve_balance replaced) *)

\* lines 140-146: load the user, without a lock
DbRead(p, tid) ==
    /\ CanStart(p)
    /\ ncalls' = ncalls + 1
    /\ LET u == UserByTelegramId(tid) IN
       IF u = NULL
       THEN Return(p, [NoResult EXCEPT !.op = "decrease"])
       ELSE /\ pc' = [pc EXCEPT ![p] = "db_write"]
            /\ local' = [local EXCEPT ![p] =
                           [NoLocal EXCEPT !.tid = tid, !.user = u,
                                           !.free = free_images_left[u]]]
            /\ result' = [result EXCEPT ![p] = NoResult]
    /\ UNCHANGED <<dbvars, lock, order_lock, clock, reservation, ledger, touched>>

\* lines 148-154 (and 106-120 of get_user_balance): write the loaded count
\* less one and commit (the UPDATE waits for the row lock), or sum the paid
\* orders
DbWrite(p) ==
    /\ pc[p] = "db_write"
    /\ LET u == local[p].user IN
       IF local[p].free > 0
       THEN /\ LockAvailable(lock[u], p)
            /\ free_images_left' =
                  [free_images_left EXCEPT ![u] = FreeAfterReserve(local[p].free)]
            /\ Return(p, [NoResult EXCEPT !.op = "decrease", !.user = u,
                                          !.ok = TRUE, !.is_free = TRUE])
            /\ ledger' = [ledger EXCEPT ![u].granted = @ + 1]
            /\ Touch(p, {u})
       ELSE /\ pc' = [pc EXCEPT ![p] = "db_used"]
            /\ local' = [local EXCEPT ![p].paid_total = PaidTotal(u)]
            /\ UNCHANGED <<free_images_left, result, ledger, touched>>
    /\ UNCHANGED <<referred_by_id, total_referrals, referral_code,
                   packages, orders, processed_images, referral_rewards,
                   lock, order_lock, clock, reservation, ncalls,
                   total_images_processed, new_users>>

\* lines 155-158 (and 122-135 of get_user_balance): balance["paid"] > 0
DbUsed(p) ==
    /\ pc[p] = "db_used"
    /\ Return(p, [NoResult EXCEPT
                    !.op = "decrease", !.user = local[p].user,
                    !.ok = (BalanceOf(local[p].free, local[p].paid_total,
                                      UsedPaid(local[p].user)).paid > 0)])
    /\ UNCHANGED <<dbvars, lock, order_lock, clock, reservation, ncalls,
                   ledger, touched>>

----------------------------------------------------------------------------
(* set_user_referrer *)

\* users.id of the accounts of the referral programme: one more account than
\* the ledger needs, so that two referrers can claim the same account
Accounts == Users \cup {Cardinality(Users) + 1}

\* line 952: if not user.referred_by_id
NoReferrer(referred) == referred = NULL

\* faulty variant: an account may refer itself
NotSelfUnchecked(user_id, referrer_id) == TRUE

\* line 952: ... and user_id != referrer_id
NotSelf(user_id, referrer_id) == user_id # referrer_id

\* line 959: values(total_referrals=User.total_referrals + 1)
ReferralsAfterAssign(n) == n + 1

\* lines 946-952 and 965: load the user without a lock; return False when
\* a referrer is set or the referrer is the user
SurGet(p, user_id, referrer_id) ==
    /\ CanStart(p)
    /\ ncalls' = ncalls + 1
    /\ IF NoReferrer(referred_by_id[user_id]) /\ NotSelf(user_id, referrer_id)
       THEN /\ pc' = [pc EXCEPT ![p] = "sur_flush"]
            /\ local' = [local EXCEPT ![p] =
                           [NoLocal EXCEPT !.user = user_id,
                                           !.referrer = referrer_id]]
            /\ result' = [result EXCEPT ![p] = NoResult]
       ELSE Return(p, [NoResult EXCEPT !.op = "set_referrer",
                                       !.user = user_id,
                                       !.referrer = referrer_id])
    /\ UNCHANGED <<dbvars, lock, order_lock, clock, reservation, ledger,
                   touched>>

\* lines 953-956: the assignment to user.referred_by_id is flushed before the
\* UPDATE of line 957 is sent; the UPDATE of the user's row takes its lock
SurFlush(p) ==
    /\ pc[p] = "sur_flush"
    /\ LockAvailable(lock[local[p].user], p)
    /\ lock' = [lock EXCEPT ![local[p].user] = p]
    /\ pc' = [pc EXCEPT ![p] = "sur_count"]
    /\ UNCHANGED <<dbvars, order_lock, clock, local, result, reservation,
                   ncalls, ledger, touched>>

\* lines 956-963: increment the referrer's count in its row, commit both
\* writes and return True
SurCount(p) ==
    /\ pc[p] = "sur_count"
    /\ LET u == local[p].user
           r == local[p].referrer IN
       /\ LockAvailable(lock[r], p)
       /\ referred_by_id' = [referred_by_id EXCEPT ![u] = r]
       /\ total_referrals' =
             [total_referrals EXCEPT ![r] = ReferralsAfterAssign(@)]
       /\ lock' = Released(lock, p)
       /\ Return(p, [NoResult EXCEPT !.op = "set_referrer", !.user = u,
                                     !.referrer = r, !.ok = TRUE])
    /\ UNCHANGED <<free_images_left, referral_code, packages, orders,
                   processed_images, referral_rewards, order_lock, clock,
                   reservation, ncalls, ledger, touched,
                   total_images_processed, new_users>>

\* two sessions each wait for the row the other has locked: PostgreSQL
\* aborts one of them, whose execute() of line 956 raises
SurDeadlock(p) ==
    /\ pc[p] = "sur_count"
    /\ \E q \in Procs \ {p} :
          /\ pc[q] = "sur_count"
          /\ lock[local[p].referrer] = q
          /\ lock[local[q].referrer] = p
    /\ lock' = Released(lock, p)
    /\ Return(p, [NoResult EXCEPT !.op = "set_referrer",
                                  !.user = local[p].user,
                                  !.referrer = local[p].referrer,
                                  !.error = "DeadlockDetected"])
    /\ UNCHANGED <<dbvars, order_lock, clock, reservation, ncalls, ledger,
                   touched>>

----------------------------------------------------------------------------
(* generate_referral_code and get_or_create_referral_code *)

\* the codes random.choices can return (6 characters of A-Z0-9): fewer codes
\* than accounts, so that the codes can run out
Codes == {"AAAAA1", "AAAAA2"}

\* faulty variant: every code is taken for an assigned one
CodeAssignedAlways(codes, code) == TRUE

\* lines 880-883: select(User).where(User.referral_code == code)
CodeAssigned(codes, code) == \E u \in DOMAIN codes : codes[u] = code

\* faulty variant: the column has no unique index
CodeUniqueUnchecked(codes, user_id, code) == TRUE

\* models.py line 36: referral_code is unique; the UPDATE of a row fails when
\* another row holds the code
CodeUnique(codes, user_id, code) ==
    \A u \in DOMAIN codes \ {user_id} : codes[u] # code

\* lines 900-905 and 910: load the user; return its code when it has one
GcGet(p, user_id) ==
    /\ CanStart(p)
    /\ ncalls' = ncalls + 1
    /\ IF referral_code[user_id] = ""
       THEN /\ pc' = [pc EXCEPT ![p] = "gc_draw"]
            /\ local' = [local EXCEPT ![p] = [NoLocal EXCEPT !.user = user_id]]
            /\ result' = [result EXCEPT ![p] = NoResult]
       ELSE Return(p, [NoResult EXCEPT !.op = "referral_code",
                                       !.user = user_id,
                                       !.code = referral_code[user_id]])
    /\ UNCHANGED <<dbvars, lock, order_lock, clock, reservation, ledger,
                   touched>>

\* line 877: code = ''.join(random.choices(...))
GcDraw(p, code) ==
    /\ pc[p] = "gc_draw"
    /\ pc' = [pc EXCEPT ![p] = "gc_exists"]
    /\ local' = [local EXCEPT ![p].code = code]
    /\ UNCHANGED <<dbvars, lock, order_lock, clock, result, reservation,
                   ncalls, ledger, touched>>

\* lines 880-886: look the code up; draw again if a user has it, else
\* return it
GcExists(p) ==
    /\ pc[p] = "gc_exists"
    /\ pc' = [pc EXCEPT ![p] =
                IF CodeAssigned(referral_code, local[p].code)
                THEN "gc_draw" ELSE "gc_commit"]
    /\ UNCHANGED <<dbvars, lock, order_lock, clock, local, result,
                   reservation, ncalls, ledger, touched>>

\* lines 906-907: user.referral_code = code is flushed and committed; the
\* UPDATE raises IntegrityError when another row holds the code
GcCommit(p) ==
    /\ pc[p] = "gc_commit"
    /\ LET u == local[p].user IN
       /\ LockAvailable(lock[u], p)
       /\ IF CodeUnique(referral_code, u, local[p].code)
          THEN /\ referral_code' = [referral_code EXCEPT ![u] = local[p].code]
               /\ pc' = [pc EXCEPT ![p] = "gc_refresh"]
               /\ UNCHANGED <<local, result>>
          ELSE /\ Return(p, [NoResult EXCEPT !.op = "referral_code",
                                             !.user = u,
                                             !.error = "IntegrityError"])
               /\ UNCHANGED referral_code
    /\ UNCHANGED <<free_images_left, referred_by_id, total_referrals,
                   packages, orders, processed_images, referral_rewards,
                   lock, order_lock, clock, reservation, ncalls, ledger,
                   touched, total_images_processed, new_users>>

\* lines 908-910: refresh the user and return the code of its row
GcRefresh(p) ==
    /\ pc[p] = "gc_refresh"
    /\ Return(p, [NoResult EXCEPT !.op = "referral_code",
                                  !.user = local[p].user,
                                  !.code = referral_code[local[p].user]])
    /\ UNCHANGED <<dbvars, lock, order_lock, clock, reservation, ncalls,
                   ledger, touched>>

----------------------------------------------------------------------------
(* sync_packages_from_config, run when the bot starts *)

\* faulty variant: no row is taken for the package of a config entry
SamePackageNever(row, config) == FALSE

\* lines 313-318: Package.name == name and Package.images_count == images_count
SamePackage(row, config) ==
    /\ row.name = config.name
    /\ row.images_count = config.images_count

\* faulty variant: every entry adds a row
SyncedEntryAlwaysNew(pkgs, config) ==
    [rows |-> Append(pkgs, [name |-> config.name,
                            images_count |-> config.images_count,
                            price_rub |-> config.price_rub,
                            is_active |-> TRUE]),
     id |-> Len(pkgs) + 1]

\* lines 322-337: the rows after one entry of the list: the row found gets
\* the entry's price and becomes active, or a new active row is added
SyncedEntry(pkgs, config) ==
    LET found == {i \in DOMAIN pkgs : SamePackage(pkgs[i], config)} IN
    IF found # {}
    THEN LET i == CHOOSE i \in found : TRUE IN
         [rows |-> [pkgs EXCEPT ![i].price_rub = config.price_rub,
                                ![i].is_active = TRUE],
          id |-> i]
    ELSE [rows |-> Append(pkgs, [name |-> config.name,
                                 images_count |-> config.images_count,
                                 price_rub |-> config.price_rub,
                                 is_active |-> TRUE]),
          id |-> Len(pkgs) + 1]

\* lines 304-337: the loop over packages_config, collecting active_package_ids
RECURSIVE SyncedEntries(_, _, _)
SyncedEntries(pkgs, active_package_ids, packages_config) ==
    IF packages_config = <<>>
    THEN [rows |-> pkgs, active_package_ids |-> active_package_ids]
    ELSE LET one == SyncedEntry(pkgs, Head(packages_config)) IN
         SyncedEntries(one.rows, active_package_ids \cup {one.id},
                       Tail(packages_config))

\* faulty variant: no row is deactivated
DeactivatedNone(pkgs, active_package_ids) == pkgs

\* faulty variant: the rows of packages not in the config are deleted
DeletedAbsent(pkgs, active_package_ids) ==
    SelectSeq(pkgs, LAMBDA row :
                \E i \in active_package_ids : pkgs[i] = row)

\* lines 340-344: update(Package).where(Package.id.not_in(active_package_ids))
\* .values(is_active=False)
Deactivated(pkgs, active_package_ids) ==
    [i \in DOMAIN pkgs |->
        IF i \in active_package_ids THEN pkgs[i]
        ELSE [pkgs[i] EXCEPT !.is_active = FALSE]]

\* lines 304-344: the table after the loop and the deactivation
SyncedPackages(pkgs, packages_config) ==
    LET synced == SyncedEntries(pkgs, {}, packages_config) IN
    Deactivated(synced.rows, synced.active_package_ids)

\* lines 294-346: the whole synchronization, committed at line 346
SyncPackagesFromConfig(packages_config) ==
    /\ \A p \in Procs : pc[p] = "idle"
    /\ ncalls < MaxSyncs
    /\ ncalls' = ncalls + 1
    /\ packages' = SyncedPackages(packages, packages_config)
    /\ UNCHANGED <<free_images_left, referred_by_id, total_referrals,
                   referral_code, orders, processed_images,
                   referral_rewards, lock, order_lock, clock, pc, local,
                   result, reservation, ledger, touched,
                   total_images_processed, new_users>>

----------------------------------------------------------------------------
(* update_user_stats *)

\* line 265: is_first_image = (user.total_images_processed == 0)
IsFirstImage(processed) == processed = 0

\* line 267: user.total_images_processed += 1, on the value loaded
ProcessedAfterUpdate(processed) == processed + 1

\* lines 258-263 and 273: load the user, without a lock; (False, 0) when
\* there is none
UsRead(p, tid) ==
    /\ CanStart(p)
    /\ ncalls' = ncalls + 1
    /\ LET u == UserByTelegramId(tid) IN
       IF u = NULL
       THEN Return(p, [NoResult EXCEPT !.op = "stats"])
       ELSE /\ pc' = [pc EXCEPT ![p] = "us_write"]
            /\ local' = [local EXCEPT ![p] =
                           [NoLocal EXCEPT
                              !.tid = tid, !.user = u,
                              !.processed = total_images_processed[u]]]
            /\ result' = [result EXCEPT ![p] = NoResult]
    /\ UNCHANGED <<dbvars, lock, order_lock, clock, reservation, ledger,
                   touched>>

\* lines 265-271: write the loaded count plus one and commit (the UPDATE
\* waits for the row lock); return (is_first_image, user.id)
UsWrite(p) ==
    /\ pc[p] = "us_write"
    /\ LET u == local[p].user IN
       /\ LockAvailable(lock[u], p)
       /\ total_images_processed' =
             [total_images_processed EXCEPT
                ![u] = ProcessedAfterUpdate(local[p].processed)]
       /\ ledger' = [ledger EXCEPT ![u].updated = @ + 1]
       /\ Return(p, [NoResult EXCEPT !.op = "stats", !.user = u,
                       !.ok = IsFirstImage(local[p].processed)])
    /\ UNCHANGED <<free_images_left, referred_by_id, total_referrals,
                   referral_code, new_users, packages, orders,
                   processed_images, referral_rewards, lock, order_lock,
                   clock, reservation, ncalls, touched>>

----------------------------------------------------------------------------
(* get_or_create_user *)

\* config.FREE_IMAGES_COUNT, the free_images_count of the callers and the
\* default of the parameter
FREE_IMAGES_COUNT == 3

\* the id of the users row at position i of new_users
NewUserId(i) == Cardinality(Users) + i

\* the positions of the added rows with the telegram_id
NewUsersWith(rows, tid) == {i \in DOMAIN rows : rows[i].telegram_id = tid}

\* lines 43-46: select(User).where(User.telegram_id == telegram_id)
\* .scalar_one_or_none(), over the accounts of the start and the added rows
AnyUserByTelegramId(rows, tid) ==
    IF UserByTelegramId(tid) # NULL THEN UserByTelegramId(tid)
    ELSE IF NewUsersWith(rows, tid) # {}
         THEN NewUserId(CHOOSE i \in NewUsersWith(rows, tid) : TRUE)
         ELSE NULL

\* faulty variant: telegram_id without its unique constraint
TelegramIdUniqueUnchecked(rows, tid) == TRUE

\* models.py line 16: telegram_id is unique=True; the INSERT of a second row
\* with the telegram_id fails
TelegramIdUnique(rows, tid) ==
    /\ UserByTelegramId(tid) = NULL
    /\ NewUsersWith(rows, tid) = {}

\* lines 52-63: the row of a new user; the columns not given take their
\* defaults
NewUser(tid, free_images_count) ==
    [telegram_id |-> tid, free_images_left |-> free_images_count,
     total_images_processed |-> 0, referred_by_id |-> NULL,
     referral_code |-> "", total_referrals |-> 0]

\* lines 43-48 and 67-101: load the user, without a lock; a user found is
\* returned, after at most a write of its UTM columns and metrika_client_id,
\* which are no part of the ledger
GuGet(p, tid) ==
    /\ CanStart(p)
    /\ ncalls' = ncalls + 1
    /\ LET u == AnyUserByTelegramId(new_users, tid) IN
       IF u # NULL
       THEN Return(p, [NoResult EXCEPT !.op = "user", !.user = u,
                         !.ok = TRUE])
       ELSE /\ pc' = [pc EXCEPT ![p] = "gu_commit"]
            /\ local' = [local EXCEPT ![p] =
                           [NoLocal EXCEPT !.tid = tid,
                                           !.free = FREE_IMAGES_COUNT]]
            /\ result' = [result EXCEPT ![p] = NoResult]
    /\ UNCHANGED <<dbvars, lock, order_lock, clock, reservation, ledger,
                   touched>>

\* lines 64-65: session.add(user) and commit: the INSERT, which raises
\* IntegrityError when a row with the telegram_id was committed meanwhile
GuCommit(p) ==
    /\ pc[p] = "gu_commit"
    /\ IF TelegramIdUnique(new_users, local[p].tid)
       THEN /\ new_users' = Append(new_users,
                                   NewUser(local[p].tid, local[p].free))
            /\ pc' = [pc EXCEPT ![p] = "gu_refresh"]
            /\ local' = [local EXCEPT
                           ![p].user = NewUserId(Len(new_users) + 1)]
            /\ UNCHANGED result
       ELSE /\ Return(p, [NoResult EXCEPT !.op = "user",
                                          !.error = "IntegrityError"])
            /\ UNCHANGED new_users
    /\ UNCHANGED <<free_images_left, referred_by_id, total_referrals,
                   referral_code, total_images_processed, packages, orders,
                   processed_images, referral_rewards, lock, order_lock,
                   clock, reservation, ncalls, ledger, touched>>

\* lines 66 and 101: refresh and return the new user
GuRefresh(p) ==
    /\ pc[p] = "gu_refresh"
    /\ Return(p, [NoResult EXCEPT !.op = "user", !.user = local[p].user,
                                  !.ok = TRUE])
    /\ UNCHANGED <<dbvars, lock, order_lock, clock, reservation, ncalls,
                   ledger, touched>>

----------------------------------------------------------------------------
(* The specifications. *)

\* the catalog at the start: the rows of an earlier synchronization
InitPackages ==
    <<[name |-> "A", images_count |-> 1, price_rub |-> 100, is_active |-> TRUE],
      [name |-> "B", images_count |-> 10, price_rub |-> 500, is_active |-> TRUE]>>

Init ==
    /\ \E f \in 0..MaxInitFree : free_images_left = [u \in Users |-> f]
    /\ referred_by_id = [u \in Users |-> IF u = 2 THEN 1 ELSE NULL]
    /\ total_referrals = [u \in Users |-> IF u = 1 THEN 1 ELSE 0]
    /\ referral_code = [u \in Users |-> ""]
    /\ total_images_processed = [u \in Users |-> 0]
    /\ new_users = <<>>
    /\ packages = InitPackages
    /\ \E st \in {"pending", "paid"} :
          /\ orders = <<[user_id |-> 1, package_id |-> 1, invoice_id |-> "inv1",
                         status |-> st,
                         paid_at |-> IF st = "paid" THEN 1 ELSE NULL],
                        [user_id |-> 2, package_id |-> 2, invoice_id |-> "inv2",
                         status |-> "pending", paid_at |-> NULL]>>
          /\ clock = IF st = "paid" THEN 2 ELSE 1
    /\ processed_images = [u \in Users |-> [f \in BOOLEAN |-> 0]]
    /\ referral_rewards = <<>>
    /\ lock = [u \in Users |-> NULL]
    /\ order_lock = [i \in 1..2 |-> NULL]
    /\ pc = [p \in Procs |-> "idle"]
    /\ local = [p \in Procs |-> NoLocal]
    /\ result = [p \in Procs |-> NoResult]
    /\ reservation = [p \in Procs |-> NoReservation]
    /\ ncalls = 0
    /\ ledger = [u \in Users |-> [initial |-> free_images_left[u], granted |-> 0,
                                  rolled_back |-> 0, rewarded |-> 0,
                                  updated |-> 0]]
    /\ touched = [p \in Procs |-> FALSE]

Invoices == {"inv1", "inv2", "inv9"}

\* the handlers of the ledger, settlement and referral engines
CoreStep(p) ==
    \/ \E tid \in TelegramIds : RsvLock(p, tid)
    \/ RsvFree(p)
    \/ RsvUsed(p)
    \/ RbLock(p)
    \/ RbWrite(p)
    \/ SaveProcessedImage(p)
    \/ \E tid \in TelegramIds : GbUser(p, tid)
    \/ GbPaid(p)
    \/ GbUsed(p)
    \/ \E r \in Users : ArrUpdate(p, r)
    \/ ArrCommit(p)
    \/ \E inv \in Invoices : MopGet(p, inv)
    \/ MopFlush(p)
    \/ MopReward(p)
    \/ MopCommit(p)

LegacyStep(p) ==
    \/ \E tid \in TelegramIds : DbRead(p, tid)
    \/ DbWrite(p)
    \/ DbUsed(p)

Next == \E p \in Procs : CoreStep(p) \/ LegacyStep(p)

NextCore == \E p \in Procs : CoreStep(p)

Spec == Init /\ [][Next]_vars

\* the operations of the core alone, without the legacy decrease_balance
SpecCore == Init /\ [][NextCore]_vars

\* the ledger alone: Reserve, Rollback, the finalizing save and
\* get_user_balance, with rollback_balance(telegram_id, False) also called
\* for any telegram_id
LedgerStep(p) ==
    \/ \E tid \in TelegramIds : RsvLock(p, tid)
    \/ RsvFree(p)
    \/ RsvUsed(p)
    \/ RbLock(p)
    \/ \E tid \in TelegramIds : RbCall(p, tid, FALSE)
    \/ RbWrite(p)
    \/ SaveProcessedImage(p)
    \/ \E tid \in TelegramIds : GbUser(p, tid)
    \/ GbPaid(p)
    \/ GbUsed(p)

NextLedger == \E p \in Procs : LedgerStep(p)

SpecLedger == Init /\ [][NextLedger]_vars

\* the same with lock holders that go on to their commit: a session that
\* holds a row lock is in one transaction of a handler, and the event loop
\* resumes it when its statement has completed
SpecLedgerFair ==
    /\ SpecLedger
    /\ \A p \in Procs : WF_vars(RsvFree(p) \/ RsvUsed(p) \/ RbWrite(p))

\* arguments of create_order: a package id with a row and one without, a
\* reference in use and a new one
PackageIds == {1, 3}
NewInvoices == {"inv1", "inv3"}

\* arguments of mark_order_paid once orders are created
OrderInvoices == {"inv1", "inv2", "inv3"}

\* the order, settlement and referral engines, with failing statements
OrderStep(p) ==
    \/ \E tid \in TelegramIds : \E k \in PackageIds : \E inv \in NewInvoices :
          CoUser(p, tid, k, inv)
    \/ CoInsert(p)
    \/ \E inv \in OrderInvoices : MopGet(p, inv)
    \/ MopFlush(p)
    \/ MopReward(p)
    \/ MopCommit(p)
    \/ \E r \in Users : ArrUpdate(p, r)
    \/ ArrCommit(p)

FaultStep(p) ==
    \/ Raise(p)
    \/ CoRefreshRaise(p)
    \/ ArrRefreshRaise(p)
    \/ MopRefreshRaise(p)

NextOrders == \E p \in Procs : OrderStep(p) \/ FaultStep(p)

SpecOrders == Init /\ [][NextOrders]_vars

\* the referral programme at the start: no account has a referral code; the
\* last account was referred by account 1, or nobody was referred
InitReferral ==
    /\ free_images_left = [u \in Accounts |-> 0]
    /\ \E r \in {NULL, 1} :
          /\ referred_by_id =
                [u \in Accounts |-> IF u = Cardinality(Accounts) THEN r ELSE NULL]
          /\ total_referrals =
                [u \in Accounts |-> IF r # NULL /\ u = r THEN 1 ELSE 0]
    /\ referral_code = [u \in Accounts |-> ""]
    /\ total_images_processed = [u \in Accounts |-> 0]
    /\ new_users = <<>>
    /\ packages = InitPackages
    /\ orders = <<>>
    /\ clock = 1
    /\ processed_images = [u \in Accounts |-> [f \in BOOLEAN |-> 0]]
    /\ referral_rewards = <<>>
    /\ lock = [u \in Accounts |-> NULL]
    /\ order_lock = <<>>
    /\ pc = [p \in Procs |-> "idle"]
    /\ local = [p \in Procs |-> NoLocal]
    /\ result = [p \in Procs |-> NoResult]
    /\ reservation = [p \in Procs |-> NoReservation]
    /\ ncalls = 0
    /\ ledger = [u \in Accounts |-> [initial |-> 0, granted |-> 0,
                                     rolled_back |-> 0, rewarded |-> 0,
                                     updated |-> 0]]
    /\ touched = [p \in Procs |-> FALSE]

\* set_user_referrer, called for any user and any referrer
ReferrerStep(p) ==
    \/ \E u \in Accounts : \E r \in Accounts : SurGet(p, u, r)
    \/ SurFlush(p)
    \/ SurCount(p)
    \/ SurDeadlock(p)

NextReferrer == \E p \in Procs : ReferrerStep(p)

SpecReferrer == InitReferral /\ [][NextReferrer]_vars

\* get_or_create_referral_code, called for any user
CodeStep(p) ==
    \/ \E u \in Accounts : GcGet(p, u)
    \/ \E c \in Codes : GcDraw(p, c)
    \/ GcExists(p)
    \/ GcCommit(p)
    \/ GcRefresh(p)

NextCodes == \E p \in Procs : CodeStep(p)

SpecCodes == InitReferral /\ [][NextCodes]_vars

\* the same with a scheduler that lets every session run its lookup (the
\* event loop resumes every coroutine whose statement has completed) and a
\* fair random.choices: a code that can be drawn again and again is drawn
SpecCodesFair ==
    /\ SpecCodes
    /\ \A p \in Procs : WF_vars(GcExists(p))
    /\ \A p \in Procs : \A c \in Codes : SF_vars(GcDraw(p, c))

\* entries of packages_config: the packages of the catalog at the start, a
\* new package, and a package with the name of one and the size of another
ConfigEntries ==
    [name : {"A"}, images_count : {1, 10}, price_rub : {100}]
    \cup [name : {"B", "C"}, images_count : {10}, price_rub : {100, 200}]

\* the lists settings.packages_config can hold
PackageConfigs ==
    {<<>>} \cup {<<a>> : a \in ConfigEntries}
           \cup {<<a, b>> : a \in ConfigEntries, b \in ConfigEntries}

\* the catalog synchronized with one list after another
NextCatalog == \E cfg \in PackageConfigs : SyncPackagesFromConfig(cfg)

SpecCatalog == Init /\ [][NextCatalog]_vars

\* update_user_stats, called for any telegram_id
StatsStep(p) ==
    \/ \E tid \in TelegramIds : UsRead(p, tid)
    \/ UsWrite(p)

NextStats == \E p \in Procs : StatsStep(p)

SpecStats == Init /\ [][NextStats]_vars

\* the ledger and add_referral_reward, with rollback_balance(telegram_id,
\* True) also called by a caller that holds no reservation: a repeated
\* rollback, or one without a Reserve before it
RetryStep(p) ==
    \/ \E tid \in TelegramIds : RsvLock(p, tid)
    \/ RsvFree(p)
    \/ RsvUsed(p)
    \/ RbLock(p)
    \/ \E tid \in TelegramIds : RbCall(p, tid, TRUE)
    \/ RbWrite(p)
    \/ SaveProcessedImage(p)
    \/ \E r \in Users : ArrUpdate(p, r)
    \/ ArrCommit(p)

NextRetry == \E p \in Procs : RetryStep(p)

SpecRetry == Init /\ [][NextRetry]_vars

\* settlement after referrers were assigned: with account 2 referred by
\* account 1 at the start, set_user_referrer(1, 2) closes a cycle (account 1
\* is the only one that can still get a referrer, so no two calls wait for
\* each other's rows)
LevelsStep(p) ==
    \/ \E u \in Users : \E r \in Users : SurGet(p, u, r)
    \/ SurFlush(p)
    \/ SurCount(p)
    \/ \E inv \in Invoices : MopGet(p, inv)
    \/ MopFlush(p)
    \/ MopReward(p)
    \/ MopCommit(p)
    \/ ArrCommit(p)

NextLevels == \E p \in Procs : LevelsStep(p)

SpecLevels == Init /\ [][NextLevels]_vars

\* first and later contacts of any telegram_id, with update_user_stats for
\* the accounts of the start
UsersStep(p) ==
    \/ \E tid \in TelegramIds : GuGet(p, tid)
    \/ GuCommit(p)
    \/ GuRefresh(p)
    \/ \E tid \in TelegramIds : UsRead(p, tid)
    \/ UsWrite(p)

NextUsers == \E p \in Procs : UsersStep(p)

SpecUsers == Init /\ [][NextUsers]_vars

\* one call at a time: a session takes a step only while every other
\* session is between calls; Reserve and decrease_balance with the handlers
\* that change what they read
Alone(p) == \A q \in Procs \ {p} : pc[q] = "idle"

AloneStep(p) ==
    \/ Alone(p) /\ \E tid \in TelegramIds : RsvLock(p, tid)
    \/ Alone(p) /\ RsvFree(p)
    \/ Alone(p) /\ RsvUsed(p)
    \/ Alone(p) /\ \E tid \in TelegramIds : DbRead(p, tid)
    \/ Alone(p) /\ DbWrite(p)
    \/ Alone(p) /\ DbUsed(p)
    \/ Alone(p) /\ RbLock(p)
    \/ Alone(p) /\ RbWrite(p)
    \/ Alone(p) /\ SaveProcessedImage(p)
    \/ Alone(p) /\ \E inv \in Invoices : MopGet(p, inv)
    \/ Alone(p) /\ MopFlush(p)
    \/ Alone(p) /\ MopReward(p)
    \/ Alone(p) /\ MopCommit(p)
    \/ Alone(p) /\ ArrCommit(p)

NextAlone == \E p \in Procs : AloneStep(p)

SpecAlone == Init /\ [][NextAlone]_vars

----------------------------------------------------------------------------
(* Properties. *)

RewardsForOrder(o) ==
    {i \in DOMAIN referral_rewards : referral_rewards[i].order_id = o}

\* p and q each made one Reserve call on account u, which held exactly one
\* free image, and no other request was made
ReservePair(u, p, q) ==
    /\ p # q
    /\ ncalls = 2
    /\ ledger[u].initial = 1
    /\ pc[p] = "idle" /\ result[p].op = "reserve" /\ result[p].user = u
    /\ pc[q] = "idle" /\ result[q].op = "reserve" /\ result[q].user = u

GrantedFree(p) == result[p].ok /\ result[p].is_free

\* C1: two Reserve calls on an account with exactly one free image, under
\* every interleaving: exactly one returns (granted, usedFree) = (true, true),
\* the other returns usedFree = false, and free_images_left ends at 0.
C1_OneFreeGrant ==
    \A u \in Users : \A p, q \in Procs :
        ReservePair(u, p, q) =>
            /\ GrantedFree(p) # GrantedFree(q)
            /\ ~GrantedFree(p) => ~result[p].is_free
            /\ ~GrantedFree(q) => ~result[q].is_free
            /\ free_images_left[u] = 0

\* the pair has run: one call got the free image, the other a paid one
C1_Witness ==
    \E u \in Users : \E p, q \in Procs :
        /\ ReservePair(u, p, q)
        /\ GrantedFree(p)
        /\ result[q].ok /\ ~result[q].is_free

\* C2: the pending->paid transition of an order is applied at most once: at
\* most one mark_order_paid call returns the order as processed and at most
\* one referral_rewards row exists for the order.
C2_SettledOnce ==
    \A o \in DOMAIN orders :
        /\ Cardinality(RewardsForOrder(o)) <= 1
        /\ Cardinality({p \in Procs : /\ result[p].op = "settle"
                                      /\ result[p].ok
                                      /\ result[p].order = o}) <= 1

\* C3: a mark_order_paid call on a reference whose order is already paid
\* returns at once and changes no table: status, paid_at, every
\* free_images_left and the referral_rewards rows stay as they are.
C3_ReplayIsNoOp ==
    [][\A p \in Procs : \A inv \in Invoices :
          ( /\ MopGet(p, inv)
            /\ OrderByInvoiceId(inv) # NULL
            /\ orders[OrderByInvoiceId(inv)].status = "paid" )
          => /\ dbvars' = dbvars
             /\ pc'[p] = "idle"
             /\ result'[p].op = "settle" /\ ~result'[p].ok]_vars

\* a second call on inv2 has returned after the first one paid the order and
\* credited the referrer
C3_Witness ==
    \E p \in Procs :
        /\ result[p].op = "settle" /\ result[p].invoice = "inv2"
        /\ ~result[p].ok
        /\ orders[2].status = "paid"
        /\ Cardinality(RewardsForOrder(2)) = 1

\* C4: the processed_images rows with is_free = false of an account never
\* outnumber the images of its paid orders.
C4_PaidConsumedOnce ==
    \A u \in Users : processed_images[u][FALSE] <= PaidTotal(u)

\* C5: no component of a balance is negative and total = free + paid, for
\* the committed state of every account and for every balance
\* get_user_balance has returned; free_images_left is never below zero.
C5_BalanceNonNegative ==
    /\ \A u \in Users :
          LET balance == GetBalance(u)
          IN  /\ free_images_left[u] >= 0
              /\ balance.free >= 0
              /\ balance.paid >= 0
              /\ balance.total = balance.free + balance.paid
    /\ \A p \in Procs :
          result[p].op = "balance" =>
              /\ result[p].balance.free >= 0
              /\ result[p].balance.paid >= 0
              /\ result[p].balance.total =
                    result[p].balance.free + result[p].balance.paid

\* a balance was returned for an account whose used paid images outnumber its
\* paid ones: paid is floored at zero
C5_Witness ==
    \E p \in Procs :
        /\ result[p].op = "balance" /\ result[p].ok
        /\ PaidTotal(result[p].user) < UsedPaid(result[p].user)
        /\ result[p].balance.paid = 0

\* C6: a session that has read an account's free_images_left in order to
\* write it holds the account's row lock from before the read until it
\* commits.
C6_LockBeforeRead ==
    \A p \in Procs :
        pc[p] \in {"rsv_free", "rsv_used", "rb_write", "arr_commit", "db_write"}
            => lock[local[p].user] = p

\* C7: no reward increment is lost: free_images_left is the initial count
\* plus the rewards credited, minus one per free reservation granted, plus
\* one per free rollback.
C7_RewardNotLost ==
    \A u \in Users :
        free_images_left[u] =
            ledger[u].initial + ledger[u].rewarded
            - ledger[u].granted + ledger[u].rolled_back

\* a reward was committed to an account between a session's Reserve on it and
\* the end of that session's Rollback
C7_Witness ==
    \E p \in Procs :
        /\ result[p].op = "rollback" /\ result[p].is_free
        /\ touched[p]
        /\ ncalls = 2
        /\ ledger[result[p].user].rewarded > 0

\* C8: Reserve on an account with a free image, then Rollback(usedFree=true),
\* with no other change to the account in between: the balance (free, paid,
\* total) is again what it was before the Reserve.
C8_RoundTrip ==
    [][\A p \in Procs : \A u \in Users :
          ( /\ pc[p] = "rb_write" /\ pc'[p] = "idle"
            /\ reservation[p].user = u /\ reservation[p].is_free
            /\ ~touched[p] )
          => GetBalance(u)' = reservation[p].pre]_vars

\* an undisturbed round trip has ended, on an account that has paid images
C8_Witness ==
    \E p \in Procs :
        /\ result[p].op = "rollback" /\ result[p].is_free
        /\ ~touched[p]
        /\ GetBalance(result[p].user).paid > 0

\* C9: Reserve on an account whose free_images_left is > 0 returns
\* (true, true) and takes exactly one free image, whatever the paid images
\* left; orders and processed_images are unchanged.
C9_FreeFirst ==
    [][\A p \in Procs : \A u \in Users :
          ( /\ pc[p] = "rsv_free" /\ pc'[p] # pc[p]
            /\ local[p].user = u
            /\ free_images_left[u] > 0 )
          => /\ result'[p].op = "reserve" /\ result'[p].user = u
             /\ result'[p].ok /\ result'[p].is_free
             /\ free_images_left'[u] = free_images_left[u] - 1
             /\ orders' = orders
             /\ processed_images' = processed_images]_vars

\* a free image was granted on an account that has paid images left
C9_Witness ==
    \E p \in Procs :
        /\ result[p].op = "reserve" /\ GrantedFree(p)
        /\ reservation[p].pre.paid > 0

\* C10: Reserve on an account with no free image and paid images left (and
\* no other change to the account during the call) returns (true, false); no
\* step of a Reserve that found no free image changes a table.
C10_PaidReserveWritesNothing ==
    [][\A p \in Procs : \A u \in Users :
          /\ ( /\ pc[p] = "rsv_used" /\ pc'[p] # pc[p]
               /\ local[p].user = u
               /\ ~touched[p]
               /\ reservation[p].pre.free = 0
               /\ reservation[p].pre.paid > 0 )
             => /\ result'[p].op = "reserve" /\ result'[p].user = u
                /\ result'[p].ok /\ ~result'[p].is_free
          /\ ( /\ pc[p] \in {"rsv_free", "rsv_used"} /\ pc'[p] # pc[p]
               /\ local[p].free = 0 )
             => dbvars' = dbvars]_vars

\* an undisturbed Reserve was granted a paid image
C10_Witness ==
    \E p \in Procs :
        /\ result[p].op = "reserve" /\ result[p].ok /\ ~result[p].is_free
        /\ ~touched[p]
        /\ reservation[p].pre.free = 0

\* C11: Reserve on an existing account returns granted = false exactly when
\* free_images_left is 0 and the images of the paid orders minus the
\* processed_images rows with is_free = false, as the call reads them, is
\* <= 0; a call during which nothing else changed the account grants iff the
\* balance total at its lock was > 0; a denied call changes no table, keeps
\* no lock and leaves no reservation.
C11_DeniedIffEmpty ==
    [][\A p \in Procs : \A u \in Users :
          ( /\ pc[p] \in {"rsv_free", "rsv_used"} /\ pc'[p] = "idle"
            /\ local[p].user = u )
          => /\ result'[p].op = "reserve" /\ result'[p].user = u
             /\ (~result'[p].ok) <=>
                   ( /\ free_images_left[u] = 0
                     /\ local[p].paid_total - processed_images[u][FALSE] <= 0 )
             /\ ~touched[p] =>
                   (result'[p].ok <=> reservation[p].pre.total > 0)
             /\ ~result'[p].ok =>
                   /\ dbvars' = dbvars
                   /\ lock'[u] # p
                   /\ reservation'[p] = NoReservation]_vars

\* an undisturbed Reserve was denied on an account with an empty balance whose
\* paid image had been used
C11_Witness ==
    \E p \in Procs :
        /\ pc[p] = "idle"
        /\ result[p].op = "reserve" /\ result[p].user # NULL
        /\ ~result[p].ok
        /\ ~touched[p]
        /\ PaidTotal(result[p].user) > 0
        /\ GetBalance(result[p].user).total = 0

\* C12: Reserve on a telegram_id without an account returns (false, false),
\* takes no lock, leaves no reservation and changes no table; get_user_balance
\* on it returns free = 0, paid = 0, total = 0 and changes nothing.
C12_UnknownAccount ==
    [][\A p \in Procs :
          /\ RsvLock(p, UnknownTelegramId)
                => /\ dbvars' = dbvars
                   /\ lock' = lock /\ order_lock' = order_lock
                   /\ pc'[p] = "idle"
                   /\ result'[p].op = "reserve" /\ result'[p].user = NULL
                   /\ ~result'[p].ok /\ ~result'[p].is_free
                   /\ reservation'[p] = NoReservation
          /\ GbUser(p, UnknownTelegramId)
                => /\ dbvars' = dbvars
                   /\ lock' = lock /\ order_lock' = order_lock
                   /\ pc'[p] = "idle"
                   /\ result'[p].op = "balance" /\ result'[p].user = NULL
                   /\ result'[p].balance = [free |-> 0, paid |-> 0, total |-> 0]]_vars

\* both calls were made on the id without an account and have returned
C12_Witness ==
    \E p, q \in Procs :
        /\ pc[p] = "idle" /\ result[p].op = "reserve" /\ result[p].user = NULL
        /\ pc[q] = "idle" /\ result[q].op = "balance" /\ result[q].user = NULL

\* C13: rollback_balance with is_free = false, for the account of a paid
\* reservation and for any telegram_id (known or not), returns at once: no
\* free_images_left and no other table changes, no processed_images row is
\* written or removed and no lock is taken.
C13_PaidRollbackNoOp ==
    [][\A p \in Procs :
          ( \/ \E tid \in TelegramIds : RbCall(p, tid, FALSE)
            \/ RbLock(p) /\ ~reservation[p].is_free )
          => /\ dbvars' = dbvars
             /\ lock' = lock /\ order_lock' = order_lock
             /\ ledger' = ledger
             /\ pc'[p] = "idle"
             /\ result'[p].op = "rollback" /\ ~result'[p].is_free]_vars

\* a paid reservation was rolled back, and a rollback with is_free = false was
\* called on the id without an account
C13_Witness ==
    \E p, q \in Procs :
        /\ pc[p] = "idle" /\ result[p].op = "rollback"
        /\ result[p].user # NULL /\ ~result[p].is_free
        /\ PaidTotal(result[p].user) > 0
        /\ pc[q] = "idle" /\ result[q].op = "rollback" /\ result[q].user = NULL

\* C14: in the step that commits an order's change from pending to paid, when
\* the buyer has a referrer: with reward = floor(images_count * percent / 100)
\* > 0 the referrer's free_images_left grows by exactly reward and exactly
\* one referral_rewards row is added, of type referral_purchase, with that
\* amount, the referrer as user, the buyer as referred user and the order
\* attached; with reward = 0 nothing is credited.  No other account's count
\* changes.  50 images at 10 percent give 5.
C14_PurchaseReward ==
    [][\A o \in DOMAIN orders :
          ( /\ orders[o].status = "pending" /\ orders'[o].status = "paid"
            /\ referred_by_id[orders[o].user_id] # NULL )
          => LET buyer == orders[o].user_id
                 referrer == referred_by_id[buyer]
                 images == packages[orders[o].package_id].images_count
                 reward == (images * REFERRAL_REWARD_PURCHASE_PERCENT) \div 100
             IN  /\ ReferralRewardFor(50) = 5
                 /\ IF reward > 0
                    THEN /\ free_images_left'[referrer] =
                               free_images_left[referrer] + reward
                         /\ referral_rewards' =
                               Append(referral_rewards,
                                      [user_id |-> referrer,
                                       referred_user_id |-> buyer,
                                       order_id |-> o,
                                       reward_type |-> "referral_purchase",
                                       images_rewarded |-> reward])
                    ELSE /\ free_images_left' = free_images_left
                         /\ referral_rewards' = referral_rewards
                 /\ \A u \in Users \ {referrer} :
                       free_images_left'[u] = free_images_left[u]]_vars

\* order 2 (10 images, referred buyer) was paid with a reward of 1 to the
\* referrer, and a created order of the same buyer for the 1-image package
\* was paid without a reward
C14_Witness ==
    /\ orders[2].status = "paid"
    /\ Len(referral_rewards) = 1
    /\ referral_rewards[1].order_id = 2
    /\ referral_rewards[1].reward_type = "referral_purchase"
    /\ free_images_left[1] = ledger[1].initial + 1
    /\ \E o \in DOMAIN orders :
          /\ o > 2 /\ orders[o].user_id = 2 /\ orders[o].package_id = 1
          /\ orders[o].status = "paid"

\* C15: a mark_order_paid call on an order whose buyer has a referrer and
\* whose reward is > 0 returns the order only from the step that commits the
\* reward row and the referrer's increment together with status paid; the
\* order row and the reward row are committed in the same step or not at
\* all; a call in which a statement failed does not return the order.
C15_SettleWithReward ==
    [][\A p \in Procs :
          ( /\ local[p].order # NULL
            /\ pc[p] # "idle" /\ pc'[p] = "idle" )
          => LET o == local[p].order
                 buyer == orders[o].user_id
                 referrer == referred_by_id[buyer]
                 images == packages[orders[o].package_id].images_count
                 reward == (images * REFERRAL_REWARD_PURCHASE_PERCENT) \div 100
                 n == Len(referral_rewards)
             IN  /\ result'[p].op = "settle"
                 /\ (referrer # NULL /\ reward > 0) =>
                       /\ result'[p].ok =>
                             /\ orders'[o].status = "paid"
                             /\ Len(referral_rewards') = n + 1
                             /\ referral_rewards'[n + 1].order_id = o
                             /\ referral_rewards'[n + 1].user_id = referrer
                             /\ referral_rewards'[n + 1].images_rewarded = reward
                             /\ free_images_left'[referrer] =
                                   free_images_left[referrer] + reward
                       /\ (orders'[o] # orders[o]) <=>
                             (Len(referral_rewards') = n + 1)
                       /\ (orders'[o] # orders[o]) <=>
                             (free_images_left'[referrer] =
                                free_images_left[referrer] + reward)
                 /\ Raised(result'[p]) => /\ ~result'[p].ok
                                         /\ result'[p].order = NULL]_vars

\* a settlement of order 2 failed before its commit and left the order
\* pending; a later call settled it and credited the referrer
C15_Witness ==
    \E p, q \in Procs :
        /\ result[q].op = "settle" /\ result[q].invoice = "inv2"
        /\ Raised(result[q])
        /\ result[p].op = "settle" /\ result[p].ok /\ result[p].order = 2
        /\ Cardinality(RewardsForOrder(2)) = 1

RECURSIVE RewardedTotal(_, _)
RewardedTotal(rows, u) ==
    IF rows = <<>> THEN 0
    ELSE (IF Head(rows).user_id = u THEN Head(rows).images_rewarded ELSE 0)
         + RewardedTotal(Tail(rows), u)

\* C16: in every committed state an account's free_images_left holds exactly
\* the increments of the referral_rewards rows that name it (over its initial
\* count, free reservations and rollbacks): no increment without its row and
\* no row without its increment, also after add_referral_reward failed
\* between its UPDATE and its commit.
C16_RewardAtomic ==
    \A u \in Users :
        free_images_left[u] =
            ledger[u].initial + RewardedTotal(referral_rewards, u)
            - ledger[u].granted + ledger[u].rolled_back

\* one add_referral_reward call failed after its UPDATE and before its commit
\* (no row of it exists), another was committed
C16_Witness ==
    \E p, q \in Procs :
        /\ result[q].op = "reward" /\ Raised(result[q])
        /\ result[p].op = "reward" /\ result[p].ok
        /\ Len(referral_rewards) = 1
        /\ referral_rewards[1].reward_type = "referral_start"

\* the Optional[Order] a mark_order_paid call returned
SettleReturn(r) == IF r.ok THEN r.order ELSE NULL

\* the call found no order for its invoice_id (the orders of Spec are those of
\* the start)
SettleNotFound(r) ==
    r.op = "settle" /\ OrderByInvoiceId(r.invoice) = NULL

\* the call found its order already paid
SettleReplay(r) ==
    r.op = "settle" /\ OrderByInvoiceId(r.invoice) # NULL /\ ~r.ok

SettleProcessed(r) == r.op = "settle" /\ r.ok

\* C17 as claimed: the value mark_order_paid returns tells the three outcomes
\* apart: processed, replay on a paid order, unknown reference; a replay
\* never returns what an unknown reference returns.
C17_ThreeOutcomes ==
    \A p, q \in Procs :
        /\ (SettleProcessed(result[p]) /\ ~SettleProcessed(result[q])
               /\ result[q].op = "settle")
             => SettleReturn(result[p]) # SettleReturn(result[q])
        /\ (SettleReplay(result[p]) /\ SettleNotFound(result[q]))
             => SettleReturn(result[p]) # SettleReturn(result[q])

\* C17 as amended: mark_order_paid returns the order exactly when the call
\* made the order paid, and None both for a replay on a paid order and for
\* an unknown reference.
C17_ProcessedOrNone ==
    [][\A p \in Procs :
          /\ \A inv \in Invoices :
                MopGet(p, inv) =>
                    LET o == OrderByInvoiceId(inv) IN
                    IF o = NULL \/ orders[o].status = "paid"
                    THEN /\ pc'[p] = "idle"
                         /\ result'[p].op = "settle"
                         /\ SettleReturn(result'[p]) = NULL
                    ELSE pc'[p] # "idle"
          /\ ( /\ local[p].order # NULL
               /\ pc[p] # "idle" /\ pc'[p] = "idle" )
             => /\ result'[p].op = "settle"
                /\ SettleReturn(result'[p]) = local[p].order
                /\ orders'[local[p].order].status = "paid"]_vars

\* a replay on the paid order 2 and a call on an unknown reference have both
\* returned None
C17_Witness ==
    \E p, q \in Procs :
        /\ SettleReplay(result[p]) /\ result[p].invoice = "inv2"
        /\ Cardinality(RewardsForOrder(2)) = 1
        /\ SettleNotFound(result[q])
        /\ SettleReturn(result[p]) = NULL /\ SettleReturn(result[q]) = NULL

\* C18: the only change of an order's status is pending -> paid; an order
\* whose status is not pending keeps its status and its paid_at, and no
\* reward is credited for it.
C18_PaidIsTerminal ==
    [][\A o \in DOMAIN orders :
          /\ orders'[o].status # orders[o].status
                => orders[o].status = "pending" /\ orders'[o].status = "paid"
          /\ orders[o].status # "pending"
                => /\ orders'[o].status = orders[o].status
                   /\ orders'[o].paid_at = orders[o].paid_at
                   /\ RewardsForOrder(o)' = RewardsForOrder(o)]_vars

\* C19: create_order for a telegram_id without an account, or for a
\* package_id without a package, raises and adds no order (and changes no
\* other table); a call that returns an order has added exactly one row, with
\* status pending, paid_at unset, the account of the telegram_id and the
\* package given, and returns that row.
C19_CreateOrder ==
    [][\A p \in Procs :
          /\ (pc[p] = "idle" /\ pc'[p] = "co_insert")
                => /\ local'[p].user \in Users
                   /\ TelegramIdOf(local'[p].user) = local'[p].tid
                   /\ dbvars' = dbvars
          /\ ( /\ pc[p] = "idle" /\ pc'[p] = "idle"
               /\ result'[p] # result[p] /\ result'[p].op = "create" )
                => /\ dbvars' = dbvars
                   /\ Raised(result'[p]) /\ ~result'[p].ok
          /\ (pc[p] = "co_insert" /\ pc'[p] = "idle")
                => /\ result'[p].op = "create"
                   /\ local[p].package_id \notin DOMAIN packages
                         => /\ dbvars' = dbvars
                            /\ Raised(result'[p]) /\ ~result'[p].ok
                   /\ result'[p].ok
                         => /\ TelegramIdOf(local[p].user) = local[p].tid
                            /\ orders' =
                                 Append(orders,
                                        [user_id |-> local[p].user,
                                         package_id |-> local[p].package_id,
                                         invoice_id |-> local[p].invoice,
                                         status |-> "pending",
                                         paid_at |-> NULL])
                            /\ result'[p].order = Len(orders')
                            /\ local[p].package_id \in DOMAIN packages
                   /\ orders' # orders => Len(orders') = Len(orders) + 1]_vars

\* one call created a pending order and one was refused for the id without
\* an account
C19_Witness ==
    \E p, q \in Procs :
        /\ result[p].op = "create" /\ result[p].ok
        /\ result[p].order > 2
        /\ orders[result[p].order].status = "pending"
        /\ orders[result[p].order].paid_at = NULL
        /\ result[q].op = "create" /\ result[q].error = "ValueError"

NoSharedInvoiceId ==
    \A i, j \in DOMAIN orders :
        i # j => orders[i].invoice_id # orders[j].invoice_id

\* C20: no two orders share an invoice_id (every invoice_id of the model is
\* non-null), so the lookup by invoice_id matches at most one order; a
\* create_order whose invoice_id is in use raises IntegrityError and changes
\* no order and no free_images_left, whether the other order was there
\* before the call or was committed by a concurrent call.
C20_UniqueInvoice ==
    /\ []NoSharedInvoiceId
    /\ [][\A p \in Procs :
             ( /\ pc[p] = "co_insert" /\ pc'[p] # pc[p]
               /\ \E i \in DOMAIN orders :
                     orders[i].invoice_id = local[p].invoice )
             => /\ dbvars' = dbvars
                /\ result'[p].op = "create"
                /\ Raised(result'[p]) /\ ~result'[p].ok]_vars

\* two concurrent calls named the same new invoice_id: one created the order,
\* the other was refused by the constraint
C20_Witness ==
    \E p, q \in Procs :
        /\ result[p].op = "create" /\ result[p].ok
        /\ result[p].invoice = "inv3"
        /\ result[q].op = "create" /\ result[q].error = "IntegrityError"
        /\ result[q].invoice = "inv3"
        /\ ncalls = 2
        /\ Cardinality({i \in DOMAIN orders : orders[i].invoice_id = "inv3"}) = 1

\* the call set_user_referrer(u, r) returned True to its caller
AssignedTo(res, u, r) ==
    /\ res.op = "set_referrer"
    /\ res.ok
    /\ res.user = u
    /\ res.referrer = r

\* the call set_user_referrer(u, r) returned False to its caller
AssignRefused(res, u, r) ==
    /\ res.op = "set_referrer"
    /\ ~res.ok
    /\ ~Raised(res)
    /\ res.user = u
    /\ res.referrer = r

\* the accounts whose referred_by_id is r
ReferredBy(r) == {u \in DOMAIN referred_by_id : referred_by_id[u] = r}

\* C21: once set_user_referrer(u, r) has returned True, the referrer of u
\* is r for good, and every call set_user_referrer(u, r2) that starts later
\* returns False and changes no referred_by_id and no total_referrals
C21_OneTimeReferrer ==
    /\ [](\A q \in Procs : \A u \in Accounts : \A r \in Accounts :
             AssignedTo(result[q], u, r) => referred_by_id[u] = r)
    /\ [][\A p \in Procs : \A q \in Procs : \A u \in Accounts :
             \A r \in Accounts : \A r2 \in Accounts :
                ( /\ AssignedTo(result[q], u, r)
                  /\ SurGet(p, u, r2) )
                => /\ AssignRefused(result'[p], u, r2)
                   /\ pc'[p] = "idle"
                   /\ UNCHANGED <<referred_by_id, total_referrals>>]_vars

\* C22: no account is its own referrer, and set_user_referrer(u, u) returns
\* False without changing any referred_by_id or total_referrals
C22_NeverOwnReferrer ==
    /\ [](\A u \in Accounts : referred_by_id[u] # u)
    /\ [][\A p \in Procs : \A u \in Accounts :
             SurGet(p, u, u)
             => /\ AssignRefused(result'[p], u, u)
                /\ pc'[p] = "idle"
                /\ UNCHANGED <<referred_by_id, total_referrals>>]_vars

\* an account without a referrer named itself and was refused, while another
\* account has got a referrer
C22_Witness ==
    \E p \in Procs : \E u \in Accounts :
       /\ AssignRefused(result[p], u, u)
       /\ referred_by_id[u] = NULL
       /\ \E q \in Procs \ {p} : \E v \in Accounts \ {u} :
             AssignedTo(result[q], v, referred_by_id[v])

\* C23: whenever no set_user_referrer call is in progress, the
\* total_referrals of every account is the number of accounts whose
\* referred_by_id is that account
C23_CountMatchesLinks ==
    (\A p \in Procs : pc[p] = "idle")
    => \A r \in Accounts : total_referrals[r] = Cardinality(ReferredBy(r))

\* the config entry is for the package of the row
EntryOf(row, config) ==
    /\ config.name = row.name
    /\ config.images_count = row.images_count

\* the positions of the list whose entry is for the package of the row
EntriesOf(row, packages_config) ==
    {k \in DOMAIN packages_config : EntryOf(row, packages_config[k])}

\* C24: a synchronization with a list keeps every row under its id with its
\* name and images_count; a row whose package is in the list is active
\* afterwards with the price of the list (of its last entry for the package),
\* a row whose package is not in the list is inactive with its price kept;
\* every package of the list has exactly one row, and a row is added only
\* for a package of the list that had none
C24_SyncReconciles ==
    [][\A cfg \in PackageConfigs :
          SyncPackagesFromConfig(cfg)
          => /\ Len(packages') >= Len(packages)
             /\ \A i \in DOMAIN packages :
                   LET ks == EntriesOf(packages[i], cfg) IN
                   /\ packages'[i].name = packages[i].name
                   /\ packages'[i].images_count = packages[i].images_count
                   /\ packages'[i].is_active = (ks # {})
                   /\ packages'[i].price_rub =
                         IF ks = {} THEN packages[i].price_rub
                         ELSE cfg[CHOOSE k \in ks : \A j \in ks : j <= k].price_rub
             /\ \A k \in DOMAIN cfg :
                   Cardinality({i \in DOMAIN packages' :
                                  EntryOf(packages'[i], cfg[k])}) = 1
             /\ \A i \in DOMAIN packages' \ DOMAIN packages :
                   /\ packages'[i].is_active
                   /\ \E k \in DOMAIN cfg :
                         /\ EntryOf(packages'[i], cfg[k])
                         /\ \A j \in DOMAIN packages :
                               ~EntryOf(packages[j], cfg[k])]_vars

\* the catalog after the lists [A, B] and [B, C]: A is inactive with its
\* price, B is active under its id with the price of the second list, which
\* is neither its first price nor that of the first list, and C is a new
\* active row
C24_Witness ==
    /\ ncalls = 2
    /\ packages =
          <<[name |-> "A", images_count |-> 1, price_rub |-> 100,
             is_active |-> FALSE],
            [name |-> "B", images_count |-> 10, price_rub |-> 100,
             is_active |-> TRUE],
            [name |-> "C", images_count |-> 10, price_rub |-> 200,
             is_active |-> TRUE]>>

\* C25: a synchronization deletes no package row and changes the
\* images_count of none; the orders are untouched and each still names a
\* row of packages; the balance of every account is what it was
C25_SyncFrame ==
    [][(\E cfg \in PackageConfigs : SyncPackagesFromConfig(cfg))
       => /\ Len(packages') >= Len(packages)
          /\ \A i \in DOMAIN packages :
                packages'[i].images_count = packages[i].images_count
          /\ orders' = orders
          /\ \A o \in DOMAIN orders : orders[o].package_id \in DOMAIN packages'
          /\ \A u \in Users :
                /\ PaidTotal(u)' = PaidTotal(u)
                /\ GetBalance(u)' = GetBalance(u)]_vars

\* the package of a paid order has been made inactive and rows were added;
\* the buyer still has the image the order paid for
C25_Witness ==
    /\ ncalls > 0
    /\ Len(packages) > Len(InitPackages)
    /\ \E o \in DOMAIN orders :
          /\ orders[o].status = "paid"
          /\ ~packages[orders[o].package_id].is_active
          /\ GetBalance(orders[o].user_id).paid =
                packages[orders[o].package_id].images_count

\* C26: no two accounts hold the same referral code, whatever the
\* interleaving of the get_or_create_referral_code calls
C26_UniqueCodes ==
    \A u \in Accounts : \A v \in Accounts :
       (u # v /\ referral_code[u] # "") => referral_code[u] # referral_code[v]

\* two sessions took the same code for unassigned in generate_referral_code,
\* for two accounts: one has got the code, the commit of the other raised
C26_Witness ==
    \E p \in Procs : \E q \in Procs \ {p} :
       /\ result[p].op = "referral_code"
       /\ result[p].error = "IntegrityError"
       /\ referral_code[result[p].user] = ""
       /\ result[q].op = "referral_code"
       /\ result[q].code \in Codes
       /\ result[q].user # result[p].user
       /\ referral_code[result[q].user] = result[q].code
       /\ ncalls = 2

\* the session is in the loop of generate_referral_code
Generating(p) == pc[p] \in {"gc_draw", "gc_exists"}

\* a code no account holds
Unassigned(c) == \A u \in Accounts : referral_code[u] # c

\* C27: the code generate_referral_code returns is held by no account when
\* its lookup is made, and a session in generate_referral_code leaves it
\* unless every code is assigned
C27_GenerateTerminates ==
    /\ [][\A p \in Procs :
             (pc[p] = "gc_exists" /\ pc'[p] = "gc_commit")
             => /\ local[p].code \in Codes
                /\ Unassigned(local[p].code)
                /\ local'[p].code = local[p].code]_vars
    /\ \A p \in Procs :
          Generating(p) ~> (~Generating(p) \/ \A c \in Codes : ~Unassigned(c))

\* a session drew a code an account holds and is back at the draw, while
\* another code is unassigned
C27_Witness ==
    \E p \in Procs :
       /\ pc[p] = "gc_draw"
       /\ local[p].code \in Codes
       /\ ~Unassigned(local[p].code)
       /\ \E c \in Codes : Unassigned(c)

\* the session is in check_and_reserve_balance, after its SELECT FOR UPDATE
InReserve(p) == pc[p] \in {"rsv_free", "rsv_used"}

\* the session is in a transaction that locked the row of account u
InLocked(p, u) ==
    /\ pc[p] \in {"rsv_free", "rsv_used", "rb_write"}
    /\ local[p].user = u

\* C28: two sessions are never both in a Reserve or Rollback transaction
\* on the same account; a Reserve on an account whose row is not locked can
\* proceed, and so can the Rollback of a free reservation, whatever rows of
\* other accounts are locked; and with lock holders that go on to commit,
\* every lock is released and every Reserve returns
C28_SerializedPerAccount ==
    /\ [](\A p \in Procs : \A q \in Procs \ {p} : \A u \in Users :
             ~(InLocked(p, u) /\ InLocked(q, u)))
    /\ [](\A p \in Procs : \A u \in Users :
             (CanStart(p) /\ lock[u] = NULL)
             => ENABLED RsvLock(p, TelegramIdOf(u)))
    /\ [](\A p \in Procs :
             ( /\ pc[p] = "idle"
               /\ reservation[p].user # NULL
               /\ reservation[p].is_free
               /\ lock[reservation[p].user] = NULL )
             => ENABLED RbLock(p))
    /\ \A u \in Users : (lock[u] # NULL) ~> (lock[u] = NULL)
    /\ \A p \in Procs :
          InReserve(p) ~> (pc[p] = "idle" /\ result[p].op = "reserve")

\* a session is in Reserve on one account: the other session cannot start a
\* Reserve on that account now but can start one on the other account
C28_Witness ==
    \E p \in Procs : \E q \in Procs \ {p} : \E u \in Users :
       \E v \in Users \ {u} :
          /\ InReserve(p)
          /\ local[p].user = u
          /\ lock[u] = p
          /\ CanStart(q)
          /\ ~ENABLED RsvLock(q, TelegramIdOf(u))
          /\ ENABLED RsvLock(q, TelegramIdOf(v))

\* the step is a return of check_and_reserve_balance to the session
ReserveReturns(p) ==
    /\ pc'[p] = "idle"
    /\ result'[p].op = "reserve"
    /\ \/ InReserve(p)
       \/ pc[p] = "idle" /\ result'[p] # result[p]

\* C29: when check_and_reserve_balance returns, with a free image, with a
\* paid image, without balance or for an unknown telegram_id, the session
\* holds no lock on a users row
C29_NoLockAfterReserve ==
    [][\A p \in Procs :
          ReserveReturns(p) => \A u \in Users : lock'[u] # p]_vars

\* one Reserve has returned a paid image and another has returned without
\* balance for another account; no row is locked
C29_Witness ==
    \E p \in Procs : \E q \in Procs \ {p} :
       /\ result[p].op = "reserve"
       /\ result[p].ok
       /\ ~result[p].is_free
       /\ result[q].op = "reserve"
       /\ result[q].user \in Users \ {result[p].user}
       /\ ~result[q].ok
       /\ \A u \in Users : lock[u] = NULL

\* C30: after a paid reservation, the finalizing save adds exactly one
\* processed_images row, with is_free = false and for the account, leaves
\* every free_images_left as it was and lowers the paid balance of the
\* account by exactly 1 when it was above 0; the rollback writes no row and
\* leaves the free, paid and total balance of every account as they were
C30_FinalizePaid ==
    [][\A p \in Procs : \A u \in Users :
          ( /\ reservation[p].user = u
            /\ ~reservation[p].is_free )
          => /\ SaveProcessedImage(p)
                => /\ processed_images'[u][FALSE] = processed_images[u][FALSE] + 1
                   /\ processed_images'[u][TRUE] = processed_images[u][TRUE]
                   /\ \A v \in Users \ {u} :
                         processed_images'[v] = processed_images[v]
                   /\ free_images_left' = free_images_left
                   /\ orders' = orders
                   /\ GetBalance(u)'.free = GetBalance(u).free
                   /\ GetBalance(u)'.paid =
                         IF GetBalance(u).paid > 0 THEN GetBalance(u).paid - 1
                         ELSE 0
                   /\ reservation'[p].user = NULL
             /\ RbLock(p)
                => /\ processed_images' = processed_images
                   /\ free_images_left' = free_images_left
                   /\ orders' = orders
                   /\ \A v \in Users : GetBalance(v)' = GetBalance(v)
                   /\ reservation'[p].user = NULL]_vars

\* of two paid reservations on one account, one was finalized, which used
\* up the paid balance, and the other was rolled back
C30_Witness ==
    \E p \in Procs : \E q \in Procs \ {p} : \E u \in Users :
       /\ result[p].op = "save" /\ result[p].user = u /\ ~result[p].is_free
       /\ result[q].op = "rollback" /\ result[q].user = u
       /\ ~result[q].is_free
       /\ processed_images[u][FALSE] = 1
       /\ PaidTotal(u) = 1
       /\ GetBalance(u).paid = 0

\* C31: total_images_processed never decreases, and whenever no
\* update_user_stats call is in progress it has grown by the number of the
\* calls made for the account
C31_NoLostUpdate ==
    /\ [][\A u \in Users :
             total_images_processed'[u] >= total_images_processed[u]]_vars
    /\ [](\A u \in Users :
             (\A p \in Procs : pc[p] = "idle")
             => total_images_processed[u] = ledger[u].updated)

\* the call returned is_first_image = True for account u
FirstImage(res, u) == res.op = "stats" /\ res.user = u /\ res.ok

\* C38: no two update_user_stats calls for one account both return
\* is_first_image = True, a call returns True exactly when it moves the
\* count from 0 to 1, and a call for an unknown telegram_id returns
\* (False, 0) and changes no table
C38_OneFirstImage ==
    /\ [](\A p \in Procs : \A q \in Procs \ {p} : \A u \in Users :
             ~(FirstImage(result[p], u) /\ FirstImage(result[q], u)))
    /\ [][\A p \in Procs :
             /\ UsWrite(p)
                => result'[p].ok =
                      ( /\ total_images_processed[local[p].user] = 0
                        /\ total_images_processed'[local[p].user] = 1 )
             /\ ( /\ pc[p] = "idle" /\ result'[p] # result[p]
                  /\ result'[p].op = "stats" )
                => /\ ~result'[p].ok
                   /\ result'[p].user = NULL
                   /\ dbvars' = dbvars]_vars

\* C32: in the step that commits an order's change from pending to paid,
\* when the buyer has no referrer or floor(images_count * percent / 100) is
\* 0, paid_at is stamped, no referral_rewards row is added and no
\* free_images_left changes; and every referral_rewards row that belongs to
\* an order has images_rewarded > 0
C32_NoRewardUnlessDue ==
    /\ [][\A o \in DOMAIN orders :
             LET buyer == orders[o].user_id
                 images == packages[orders[o].package_id].images_count
                 reward == (images * REFERRAL_REWARD_PURCHASE_PERCENT) \div 100
             IN  ( /\ orders[o].status = "pending"
                   /\ orders'[o].status = "paid"
                   /\ (referred_by_id[buyer] = NULL \/ reward = 0) )
                 => /\ orders'[o].paid_at # NULL
                    /\ referral_rewards' = referral_rewards
                    /\ free_images_left' = free_images_left]_vars
    /\ [](\A i \in DOMAIN referral_rewards :
             referral_rewards[i].order_id # NULL
             => referral_rewards[i].images_rewarded > 0)

\* one call settled order 1, whose buyer has no referrer, and another
\* settled a created order of the referred buyer for the 1-image package;
\* both are paid and stamped, and nothing was credited
C32_Witness ==
    \E p \in Procs : \E q \in Procs \ {p} : \E o \in DOMAIN orders :
       /\ o > 2
       /\ orders[o].user_id = 2
       /\ referred_by_id[2] # NULL
       /\ packages[orders[o].package_id].images_count = 1
       /\ result[p].op = "settle" /\ result[p].ok /\ result[p].order = o
       /\ result[q].op = "settle" /\ result[q].ok /\ result[q].order = 1
       /\ referred_by_id[1] = NULL
       /\ orders[o].status = "paid" /\ orders[o].paid_at # NULL
       /\ orders[1].status = "paid" /\ orders[1].paid_at # NULL
       /\ referral_rewards = <<>>
       /\ \A u \in Users : free_images_left[u] = ledger[u].initial

\* the free reservations on account u that were not rolled back: those
\* finalized and those still held
FreeReserved(u) ==
    processed_images[u][TRUE]
    + Cardinality({p \in Procs : reservation[p].user = u
                                  /\ reservation[p].is_free})

\* C33: the free_images_left of an account never exceeds its initial count
\* plus the images_rewarded of its referral_rewards rows, and is that sum
\* less the free reservations not rolled back
C33_FreeConserved ==
    \A u \in Users :
       /\ free_images_left[u] <=
             ledger[u].initial + RewardedTotal(referral_rewards, u)
       /\ free_images_left[u] =
             ledger[u].initial + RewardedTotal(referral_rewards, u)
             - FreeReserved(u)

\* the accounts whose free_images_left the step changes
FreeChanged == {u \in Users : free_images_left'[u] # free_images_left[u]}

\* C34: the step that commits an order's change from pending to paid
\* changes the free_images_left of no account but the buyer's referrer:
\* not of the buyer and not of the referrer's referrer, also when the buyer
\* and the referrer have referred each other
C34_SingleLevel ==
    [][\A o \in DOMAIN orders :
          ( orders[o].status = "pending" /\ orders'[o].status = "paid" )
          => LET buyer == orders[o].user_id IN
             /\ Cardinality(FreeChanged) <= 1
             /\ FreeChanged \subseteq {referred_by_id[buyer]}
             /\ buyer \notin FreeChanged]_vars

\* accounts 1 and 2 have referred each other and order 2, of account 2, was
\* settled: account 1 got the reward of 1 image, account 2 got nothing
C34_Witness ==
    /\ referred_by_id[1] = 2
    /\ referred_by_id[2] = 1
    /\ \E p \in Procs :
          result[p].op = "settle" /\ result[p].ok /\ result[p].order = 2
    /\ Len(referral_rewards) = 1
    /\ referral_rewards[1].user_id = 1
    /\ free_images_left[1] = ledger[1].initial + 1
    /\ free_images_left[2] = ledger[2].initial

\* C35: in every state an order has paid_at set exactly when its status is
\* paid, and no step changes a paid_at that is set.
C35_PaidAtStamp ==
    /\ [](\A o \in DOMAIN orders :
             orders[o].paid_at # NULL <=> orders[o].status = "paid")
    /\ [][\A o \in DOMAIN orders :
             orders[o].paid_at # NULL
                => orders'[o].paid_at = orders[o].paid_at]_vars

\* the rows of the table that are active, as get_all_packages selects them
ActiveRows(pkgs) == {i \in DOMAIN pkgs : pkgs[i].is_active}

\* the active rows are those whose package is in the list
ActiveAreListed(pkgs, cfg) ==
    \A i \in DOMAIN pkgs : pkgs[i].is_active <=> EntriesOf(pkgs[i], cfg) # {}

\* C36 as stated: after a synchronization with a list the active rows are
\* those whose package (name, images_count) is in the list, and every entry
\* of the list has exactly one active row with the price of that entry; an
\* empty list leaves no active row.
C36_ActiveSetPerEntry ==
    [][\A cfg \in PackageConfigs :
          SyncPackagesFromConfig(cfg)
          => /\ ActiveAreListed(packages', cfg)
             /\ \A k \in DOMAIN cfg :
                   Cardinality({i \in ActiveRows(packages') :
                                  /\ EntryOf(packages'[i], cfg[k])
                                  /\ packages'[i].price_rub = cfg[k].price_rub})
                      = 1
             /\ cfg = <<>> => ActiveRows(packages') = {}]_vars

\* C36 amended: after a synchronization with a list the active rows are
\* those whose package is in the list, and every entry of the list has
\* exactly one active row, whose price is that of the last entry of the list
\* for the same package (the entry's own price when the list names the
\* package once); an empty list leaves no active row.
C36_ActiveSetLastEntry ==
    [][\A cfg \in PackageConfigs :
          SyncPackagesFromConfig(cfg)
          => /\ ActiveAreListed(packages', cfg)
             /\ \A k \in DOMAIN cfg :
                   LET last == CHOOSE j \in DOMAIN cfg :
                                  /\ cfg[j].name = cfg[k].name
                                  /\ cfg[j].images_count = cfg[k].images_count
                                  /\ \A m \in DOMAIN cfg :
                                        ( /\ cfg[m].name = cfg[k].name
                                          /\ cfg[m].images_count
                                                = cfg[k].images_count )
                                        => m <= j
                   IN Cardinality({i \in ActiveRows(packages') :
                                     /\ EntryOf(packages'[i], cfg[k])
                                     /\ packages'[i].price_rub
                                           = cfg[last].price_rub}) = 1
             /\ cfg = <<>> => ActiveRows(packages') = {}]_vars

\* the catalog after one synchronization with [B at 200, C at 100]: A is
\* inactive, B is active with the new price and C is a new active row
C36_Witness ==
    /\ ncalls = 1
    /\ packages =
          <<[name |-> "A", images_count |-> 1, price_rub |-> 100,
             is_active |-> FALSE],
            [name |-> "B", images_count |-> 10, price_rub |-> 200,
             is_active |-> TRUE],
            [name |-> "C", images_count |-> 10, price_rub |-> 100,
             is_active |-> TRUE]>>

\* C37: the table a synchronization with a list leaves is the table that a
\* second synchronization with the same list leaves: the second one adds no
\* row and changes no price and no flag.
C37_SyncIdempotent ==
    [][\A cfg \in PackageConfigs :
          SyncPackagesFromConfig(cfg)
          => SyncedPackages(packages', cfg) = packages']_vars

\* the catalog after two synchronizations with [A of 10 images, C]: two rows
\* were added by the first, none by the second, and the two first rows are
\* inactive
C37_Witness ==
    /\ ncalls = 2
    /\ packages =
          <<[name |-> "A", images_count |-> 1, price_rub |-> 100,
             is_active |-> FALSE],
            [name |-> "B", images_count |-> 10, price_rub |-> 500,
             is_active |-> FALSE],
            [name |-> "A", images_count |-> 10, price_rub |-> 100,
             is_active |-> TRUE],
            [name |-> "C", images_count |-> 10, price_rub |-> 200,
             is_active |-> TRUE]>>
    /\ \E cfg \in PackageConfigs :
          /\ Len(cfg) = 2
          /\ cfg[1].name = "A" /\ cfg[2].name = "C"
          /\ SyncedPackages(InitPackages, cfg) = packages
          /\ SyncedPackages(packages, cfg) = packages

\* the step is one of a get_or_create_user call of session p: the lookup
\* that finds no user, the INSERT, the refresh, or a call that returns the
\* user found
GetOrCreateStep(p) ==
    \/ pc[p] = "idle" /\ pc'[p] = "gu_commit"
    \/ pc[p] \in {"gu_commit", "gu_refresh"} /\ pc'[p] # pc[p]
    \/ /\ pc[p] = "idle" /\ pc' = pc /\ ncalls' # ncalls
       /\ result'[p].op = "user"

\* C39: the users table never has two rows with one telegram_id, and every
\* added row has the configured free count of 3; a step of get_or_create_user
\* leaves every column of every existing row as it was (free_images_left,
\* total_images_processed, referred_by_id, referral_code and total_referrals
\* of the accounts of the start, and the rows added before it), and a call
\* that returns at once adds no row.
C39_CreateOnce ==
    /\ [](\A i, j \in DOMAIN new_users :
             /\ new_users[i].telegram_id = new_users[j].telegram_id => i = j
             /\ \A u \in Users : new_users[i].telegram_id # TelegramIdOf(u)
             /\ new_users[i].free_images_left = 3)
    /\ [][\A p \in Procs :
             GetOrCreateStep(p)
             => /\ free_images_left' = free_images_left
                /\ total_images_processed' = total_images_processed
                /\ referred_by_id' = referred_by_id
                /\ referral_code' = referral_code
                /\ total_referrals' = total_referrals
                /\ Len(new_users') >= Len(new_users)
                /\ \A i \in DOMAIN new_users : new_users'[i] = new_users[i]
                /\ pc[p] # "gu_commit" => new_users' = new_users]_vars

\* two first contacts of one telegram_id ran together: one added the row,
\* the other failed on the unique constraint; account 1, which has processed
\* an image, was not given free images again
C39_Witness ==
    /\ Len(new_users) = 1
    /\ \E p, q \in Procs :
          /\ result[p].op = "user" /\ result[p].ok /\ result[p].user = 3
          /\ result[q].op = "user" /\ result[q].error = "IntegrityError"
    /\ total_images_processed[1] = 1
    /\ free_images_left[1] = ledger[1].initial

\* session p returns from a Reserve or a decrease_balance that found the
\* account u
BalanceCallReturns(p, op, u) ==
    /\ pc[p] \in {"rsv_free", "rsv_used", "db_write", "db_used"}
    /\ pc'[p] = "idle"
    /\ result'[p].op = op
    /\ local[p].user = u

\* C40: with one call at a time, a Reserve and a decrease_balance that
\* return from the same state of an account return the same answer and
\* leave the same free_images_left: each grants exactly when the account
\* has a free image or more paid images than it has used, and takes one
\* free image exactly when there is one; neither changes another account,
\* and for a telegram_id without an account both return false.
C40_LegacyAgreesAlone ==
    [][\A p \in Procs : \A op \in {"reserve", "decrease"} :
          /\ \A u \in Users :
                BalanceCallReturns(p, op, u)
                => /\ result'[p].ok =
                         ( \/ free_images_left[u] > 0
                           \/ PaidTotal(u) - processed_images[u][FALSE] > 0 )
                   /\ free_images_left' =
                         [free_images_left EXCEPT
                            ![u] = IF @ > 0 THEN @ - 1 ELSE @]
          /\ ( /\ pc[p] = "idle" /\ pc' = pc /\ ncalls' # ncalls
               /\ result'[p].op = op /\ result'[p].user = NULL )
                => /\ ~result'[p].ok
                   /\ free_images_left' = free_images_left]_vars

\* account 2 has no free image and ten paid ones: the Reserve of one
\* session was granted as paid and changed nothing, and the decrease_balance
\* of the other, from the same rows, returned true as well
C40_Witness ==
    \E p, q \in Procs :
        /\ result[p].op = "reserve" /\ result[p].user = 2
        /\ result[p].ok /\ ~result[p].is_free
        /\ reservation[p].user = 2
        /\ result[q].op = "decrease" /\ result[q].user = 2 /\ result[q].ok
        /\ free_images_left[2] = 0
        /\ orders[2].status = "paid"
        /\ processed_images[2][FALSE] = 0

====
